---- MODULE Spec2Model ----
(***************************************************************************)
(* Verification model of the Haqnow Community platform's web client and    *)
(* of the services it talks to.                                            *)
(*                                                                         *)
(* Components, each with its own specification over the shared variables:  *)
(*   SpecLock    the document viewer pages of several clients, their       *)
(*               socket channels and the collaboration gateway's           *)
(*               per-document redaction lock                               *)
(*   SpecAuth    the client's session store, login form and HTTP           *)
(*               interceptor, and the authentication service               *)
(*   SpecJobs    the worker's processing jobs of a document and the        *)
(*               document status they decide                               *)
(*   SpecViewer  the page viewer's two renderers and the pointer gestures  *)
(*               that draw, move, resize and delete redactions             *)
(*   SpecRoom    the document room: the snapshot sent on join and the      *)
(*               page's live comment and redaction lists                   *)
(*   SpecKeys    the administration console's API keys                     *)
(*   SpecShares  the share form and the share grants                       *)
(*   SpecMfa     MFA enrolment                                             *)
(*   SpecDeletes the page's deletes of comments and redactions             *)
(*   SpecNav     the application's routes and navigation bar               *)
(*   SpecApi     the HTTP API's handling of credentials                    *)
(*   SpecFallback  the choice between the two renderers                    *)
(*   SpecCompare   one gesture handled by both renderers                   *)
(*   SpecSession   the session store with its persisted copy and the       *)
(*                 interceptor's redirect                                  *)
(*   SpecRequests  the delete requests in flight of the document page      *)
(*   SpecUpload    the upload dialog                                       *)
(*   SpecAsk       the AI tab and the ask operation                        *)
(*   SpecScripts   the smoke scripts run against a deployment              *)
(* SpecLockFair, SpecAskFair and SpecScriptsFair add the fairness of the   *)
(* steps that the program takes on its own.                                *)
(***************************************************************************)
EXTENDS Integers, Sequences, FiniteSets, TLC

\* ------------------------------------------------------------------ bounds
NumDocs == 2
MaxQueue == 2
MaxPosts == 1
NumCodes == 2
MaxTime == 2
TokenTtl == 2
MaxRetries == 1
MaxItems == 1
MaxKeys == 3
MaxShares == 2
MaxShareCalls == 1
MaxSecrets == 2
MaxApiDocs == 2
MaxPage == 5
Grid == 5
MaxInFlight == 2
NumFiles == 2
MaxUploads == 3
MaxTests == 3

\* Two browser sessions, each with its own socket connection.
Clients == {"c1", "c2"}
NoClient == "nobody"
Docs == 1..NumDocs
\* parseInt(id || '0')
NoDoc == 0

VARIABLES
  page,              \* [c] DocumentViewerPage lifecycle: "closed" | "open" | "left"
  documentId,        \* [c] the route's document id (NoDoc before the page opens)
  mode,              \* [c] useState mode: "view" | "comment" | "redact"
  hasRedactionLock,  \* [c] useState hasRedactionLock
  createPc,          \* [c] handleCreateRedaction: "idle" | "waiting" (the 100 ms wait)
  posts,             \* [c] number of POST /documents/{id}/redactions requests sent
  link,              \* [c] socket connection: "none" | "up" | "down"
  toClient,          \* [c] events emitted by the gateway, not yet handled by the client
  room,              \* [d] gateway: clients joined to the document room
  lock               \* [d] gateway: holder of the redaction lock, or NoClient

pageVars == <<page, documentId, mode, hasRedactionLock, createPc, posts>>
gatewayVars == <<link, toClient, room, lock>>
lockVars == <<pageVars, gatewayVars>>

\* ==================================================================
\* Session store, login page and HTTP client of one browser, with the
\* authentication service the requests go to.
\* ==================================================================
NoUser == "null"
Emails == {"alice", "bob", "eve"}
Passwords == {"pw-a", "pw-b"}
Digits == 0..(NumCodes - 1)
\* The mfaCode field: empty, or a code (abstracted to one digit).
MfaCodes == {<<>>} \cup {<<n>> : n \in Digits}
Times == 0..MaxTime

\* Accounts of the authentication service: alice has MFA enabled, bob has not,
\* eve has no account.
Accounts == {"alice", "bob"}
Password(e) == IF e = "alice" THEN "pw-a" ELSE "pw-b"
MfaEnabled(e) == e = "alice"
MfaSecret(e) == IF e = "alice" THEN 1 ELSE 0

\* The time-based code of a secret at a time step.
Totp(secret, t) == <<(secret + t) % NumCodes>>

\* Tokens carry their subject and time of issue; NoToken is the store's null.
NoToken == [sub |-> NoUser, iat |-> 0, signed |-> FALSE]
AccessToken(e, t) == [sub |-> e, iat |-> t, signed |-> TRUE]

\* Request URLs, as their path segments.
LoginUrl == <<"auth", "login">>
VerifyUrl == <<"auth", "mfa", "verify">>
RegisterUrl == <<"auth", "register">>
MfaSetupUrl == <<"api", "auth", "mfa", "setup">>
ApiKeysUrl == <<"api", "auth", "admin", "api-keys">>
DocumentsUrl == <<"api", "documents">>
SearchUrl == <<"api", "search">>
UploadUrl == <<"documents", "upload">>
ProtectedUrls == {MfaSetupUrl, ApiKeysUrl, DocumentsUrl, SearchUrl, UploadUrl}

\* String.prototype.includes on paths: `part` occurs in `url` at segment
\* boundaries.
Includes(url, part) ==
  \E i \in 0..(Len(url) - Len(part)) :
    \A j \in 1..Len(part) : url[i + j] = part[j]

VARIABLES
  user,             \* store: the user's email, or NoUser
  token,            \* store: the access token, or NoToken
  isAuthenticated,  \* store
  location,         \* the route shown: "login" | "dashboard"
  needsMfa,         \* LoginPage useState needsMfa
  now,              \* time step (TOTP period, token age)
  issued,           \* service: accounts an access token has been issued to
  mfaVerified,      \* service: accounts whose TOTP code the verify step accepted
  pendingUsers,     \* service: self-registered accounts awaiting approval
  lastCall          \* the request/response pair handled in the last step

storeVars == <<user, token, isAuthenticated>>
serviceVars == <<issued, mfaVerified, pendingUsers>>
authVars == <<storeVars, location, needsMfa, now, serviceVars, lastCall>>

\* A request with the answer it got; NoCall when the last step made none.
Call(url, e, code, status, body) ==
  [url |-> url, email |-> e, code |-> code, status |-> status, body |-> body]
NoCall == Call(<<>>, NoUser, <<>>, 0, "none")

\* ==================================================================
\* Processing pipeline: the documents' status and their processing jobs, as
\* the worker advances them.
\* ==================================================================
JobDocs == {"doc-a", "doc-b"}
JobTypes == {"tiling", "thumbnails", "ocr"}
NoId == 0

\* A fan-out that forgets the OCR job.
PipelineJobsNoOcr == <<"tiling", "thumbnails">>

\* The job rows written when a document is created, in order.
PipelineJobs == <<"tiling", "thumbnails", "ocr">>

VARIABLES
  docId,       \* [d] the id the create response carried, NoId before creation
  jobRows,     \* [d] the types of the document's ProcessingJob rows, in creation order
  docStatus,   \* [d] Document.status: "none" (not created) | "new" | "processing" | "completed" | "failed"
  jobStatus,   \* [d][j] ProcessingJob.status: "none" | "pending" | "running" | "completed" | "failed"
  attempts     \* [d][j] failed attempts of the job since it was last triggered

jobVars == <<docStatus, jobStatus, attempts, docId, jobRows>>

\* ==================================================================
\* Document viewer: the deep-zoom renderer and the plain-image fallback
\* renderer of one page, with the pointer gestures of one user.
\* ==================================================================
\* Tile source size of the deep-zoom renderer, and the size the fallback
\* renderer assumes, in image pixels.
OsdWidth == 2550
OsdHeight == 3300
FallbackWidth == 2400
FallbackHeight == 3600
\* Smallest rectangle that is kept, and the size of the delete and resize
\* hotspots of the canvas hit-test, in image pixels.
MinSize == 10
HotspotSize == 30
\* Image pixels per screen pixel in the deep-zoom renderer (viewport at home
\* zoom), and the size of the fallback's <img> on screen.
OsdScale == 10
RectWidth == 240
RectHeight == 360

\* Pointer positions, in screen pixels relative to the page's top-left corner:
\* one above and left of the page, five on it (on the sample redaction: its
\* top-left corner, its inside, its bottom edge, its delete button, its resize
\* handle), one below and right of the page.
Points == {<<0 - 1, 0 - 1>>, <<1, 1>>, <<2, 2>>, <<2, 6>>, <<6, 1>>, <<6, 6>>, <<256, 361>>}

Min(a, b) == IF a < b THEN a ELSE b
Max(a, b) == IF a > b THEN a ELSE b
Abs(a) == IF a < 0 THEN 0 - a ELSE a

\* A redaction of the page as the server lists it.
SampleRedaction == [id |-> 1, x_start |-> 10, y_start |-> 10, x_end |-> 60, y_end |-> 60]
Redactions == {SampleRedaction}

\* The rectangle of a redaction with its corners in order.
Box(r) ==
  [id |-> r.id,
   x1 |-> Min(r.x_start, r.x_end), y1 |-> Min(r.y_start, r.y_end),
   x2 |-> Max(r.x_start, r.x_end), y2 |-> Max(r.y_start, r.y_end)]

\* viewport.pointFromPixel followed by viewportToImageCoordinates.
ImagePoint(pt) == <<pt[1] * OsdScale, pt[2] * OsdScale>>

\* The fallback's conversion of a position on the <img> to image coordinates.
FallbackX(x) == (x * FallbackWidth) \div RectWidth
FallbackY(y) == (y * FallbackHeight) \div RectHeight

\* The props the page derives from its mode.
ModeProps(m) == [redactionMode |-> m = "redact", commentMode |-> m = "comment"]
Modes == {"view", "comment", "redact"}

VARIABLES
  redactionMode,     \* prop
  commentMode,       \* prop
  redactions,        \* prop: the page's redactions
  useImageFallback,  \* useState: the fallback renderer is shown
  capturedRedactions,\* the redactions the deep-zoom effect's handlers closed over
  panEnabled,        \* osdViewer.panHorizontal / panVertical / zoom steps
  mouseNavEnabled,   \* viewer.setMouseNavEnabled
  isDrawingRef,
  drawStartRef,      \* <<>> or <<point>>; currentRedactionRef is set with it
  suppressCanvasInteractionsRef,
  draggingRef,       \* <<>> or <<[id, startX, startY, orig]>>
  resizingRef,       \* the same, for a resize
  pendingUpdateRef,  \* <<>> or <<box>>
  showOsdCommentInput,
  fbDrawStart,       \* fallback: <<>> or <<point>> while its global listeners are set
  fbResizing,        \* fallback resizingRef: <<>> or <<[id, startX, startY, orig, w, h]>>
  showCommentInput,  \* fallback useState
  pressed,           \* <<>> or <<[target, canvas, at]>>: the gesture in progress
  released,          \* <<>> or <<[target, from, to]>>: the gesture the last step ended
  calls              \* callbacks the last step made: create/update/delete requests

viewerVars == <<redactionMode, commentMode, redactions, useImageFallback,
                capturedRedactions, panEnabled, mouseNavEnabled, isDrawingRef,
                drawStartRef, suppressCanvasInteractionsRef, draggingRef,
                resizingRef, pendingUpdateRef, showOsdCommentInput, fbDrawStart,
                fbResizing, showCommentInput, pressed, released, calls>>

\* ==================================================================
\* Document room: the comments and redactions of one document as the REST
\* API lists them, the gateway's room for the document, and the live lists
\* of the pages that have joined it.
\* ==================================================================
ItemIds == 1..MaxItems

VARIABLES
  restComments,    \* the document's comments (ids) as GET /documents/{id}/comments lists them
  restRedactions,  \* the document's redactions (ids) as GET /documents/{id}/redactions lists them
  usedComments,    \* number of comment ids given out
  usedRedactions,  \* number of redaction ids given out
  inRoom,          \* [c] the page's connection is in the document's room
  inbox,           \* [c] events sent to the page's socket, oldest first
  liveComments,    \* [c] useState liveComments
  liveRedactions   \* [c] useState liveRedactions

roomVars == <<restComments, restRedactions, usedComments, usedRedactions,
              inRoom, inbox, liveComments, liveRedactions>>

\* ==================================================================
\* API keys: the administration console's API-key tab and the key
\* management endpoints it calls.
\* ==================================================================
KeyIds == 1..MaxKeys
NoKey == 0

\* Key information that carries the secret as well.
KeyInfoFieldsWithSecret ==
  {"id", "name", "scopes", "created_by", "last_used_at", "is_active", "created_at", "api_key"}

\* The fields of a key's information (interface ApiKey).
KeyInfoFields ==
  {"id", "name", "scopes", "created_by", "last_used_at", "is_active", "created_at"}

VARIABLES
  keyStore,      \* service: the ids of the keys created (their secrets are stored hashed)
  revokedKeys,   \* service: the ids of the keys revoked
  newApiKey,     \* console useState newApiKey: the key whose secret is shown, or NoKey
  apiKeys,       \* console: data of the ['admin-api-keys'] query, as [key, field] entries
  keyResponse,   \* the body of the last response, as [key, field] entries
  disclosed      \* [id] number of responses that carried the secret of key id

keyVars == <<keyStore, revokedKeys, newApiKey, apiKeys, keyResponse, disclosed>>

\* Sharing: the share form of the document page, the share requests in
\* flight and the share grants the service has stored.
NoEmail == "null"
TypedEmails == {"", " ", " a@x.org"}
PermissionLevels == {"view", "edit"}

VARIABLES
  shareEmail,       \* form: the email typed
  sharePermission,  \* form: the permission level selected
  shareEveryone,    \* form: the "share with everyone" checkbox
  shareCalls,       \* POST /documents/{id}/shares requests in flight: [body, form]
  shares            \* service: the grants stored, in creation order

shareVars == <<shareEmail, sharePermission, shareEveryone, shareCalls, shares>>

\* MFA enrolment: the MfaSetup component of the signed-in user and the
\* account's MFA state at the authentication service.
CodeLen == 6
NonDigit == 10
NoSecret == 0
MfaStates == {"mfa_disabled", "mfa_setup_pending", "mfa_enabled"}
NoMfaCall == [op |-> "none", code |-> <<>>]

VARIABLES
  step,              \* MfaSetup useState step: "setup" or "verify"
  secret,            \* MfaSetup useState secret: the secret shown ('' as NoSecret)
  verificationCode,  \* MfaSetup useState verificationCode
  mfaCall,           \* the request in flight while isLoading
  mfaState,          \* service: the account's MFA state
  mfaSecret,         \* service: the secret issued last
  secretsIssued      \* service: the number of secrets issued

mfaVars == <<step, secret, verificationCode, mfaCall, mfaState, mfaSecret, secretsIssued>>

\* Deletes: the document page's cached comment and redaction lists, the
\* deletes in flight and how the last delete of each item ended.
Kinds == {"redactions", "comments"}
NoAnswer == [answer |-> "none", toast |-> "none"]

VARIABLES
  cached,    \* query data of ['document-redactions'] and ['document-comments']
  stale,     \* the query has been invalidated and its refetch is on its way
  deleting,  \* deletingRedactions and deletingComments
  deletion   \* per item: the answer to its last delete and the toast shown for it

deleteVars == <<cached, stale, deleting, deletion>>

\* Navigation: the application's routes and the navigation bar of the
\* signed-in layout.
Paths == {"/login", "/dashboard", "/documents", "/admin"}
AdminRoles == {"admin", "superuser"}

VARIABLES
  pathname   \* the router's location

navVars == <<pathname>>

\* HTTP API: the requests the feature test sends to the service, with and
\* without credentials, and the documents the service holds.
ApiDocIds == 1..MaxApiDocs
NoApiDoc == 0
Credentials == {"none", "invalid", "bearer"}
NoRequest == [route |-> "none", doc |-> NoApiDoc, cred |-> "none", status |-> 0]

VARIABLES
  apiDocs,      \* service: ids of the documents held
  apiCreated,   \* service: number of documents created so far
  apiLast       \* the request handled last, with its status

apiVars == <<apiDocs, apiCreated, apiLast>>

\* Renderer choice: the deep-zoom viewer's initialisation effect, its
\* fallback timer and the page shown.
FallbackDelay == 3
PageNumbers == 0..MaxPage

VARIABLES
  pageNumber,   \* prop: the page shown (a dependency of the effect)
  osd,          \* the effect's viewer: "none" | "loading" | "opened" | "failed"
  timerArmed,   \* fallbackTimer is set and not cleared
  elapsed,      \* seconds since the effect set the timer
  attached      \* the viewer's element is the container that is mounted

fallbackVars == <<pageNumber, osd, timerArmed, elapsed, attached>>

\* The viewer's variables other than useImageFallback.
viewerOtherVars == <<redactionMode, commentMode, redactions,
                     capturedRedactions, panEnabled, mouseNavEnabled, isDrawingRef,
                     drawStartRef, suppressCanvasInteractionsRef, draggingRef,
                     resizingRef, pendingUpdateRef, showOsdCommentInput, fbDrawStart,
                     fbResizing, showCommentInput, pressed, released, calls>>

\* Renderer comparison: one press-drag-release gesture over a region of the
\* page, handled by the deep-zoom renderer and by the fallback renderer.
\* A corner of the region is given in Grid-ths of the page's width and height.
GridPoints == (0..Grid) \X (0..Grid)

VARIABLES
  region,      \* <<>> or <<from, to>>: the corners of the last gesture
  osdCreated,  \* the create requests the deep-zoom renderer made for it
  fbCreated    \* the create requests the fallback renderer made for it

compareVars == <<region, osdCreated, fbCreated>>

\* ==================================================================
\* The browser around the session store: the persisted copy of the store and
\* the page loads the response interceptor causes.
\* ==================================================================
VARIABLES
  storage,     \* localStorage 'auth-storage': the persisted part of the store
  redirected   \* the interceptor assigned window.location.href in the last step

sessionVars == <<storage, redirected>>

\* ==================================================================
\* The delete requests of the document page that are in flight, and the
\* delete handler the deep-zoom viewer's canvas-click listener holds.
\* ==================================================================
VARIABLES
  inFlight,          \* [k][id] delete requests sent and not yet answered
  effectRedactions,  \* the redactions prop of the render the viewer's effect ran in
  effectDeleting     \* deletingRedactions of the render the viewer's effect ran in

requestVars == <<inFlight, effectRedactions, effectDeleting>>

\* ==================================================================
\* Upload dialog: the file list of DocumentUpload and the requests of its
\* upload mutation.
\* ==================================================================
FileIds == 1..NumFiles

VARIABLES
  files,     \* useState files: sequence of [id, status]
  added,     \* number of files added so far (each gets a new id)
  uploads    \* the mutate calls in order: [file, state], state "pending" | "success" | "error"

uploadVars == <<files, added, uploads>>

\* ==================================================================
\* Question answering: the AI tab of the document page and the ask
\* operation of the search service with its language model.
\* ==================================================================
TypedQuestions == {"", " ", "q1", "q2"}
NoAsk == "none"
\* The texts shown for an empty answer and for a failed request.
NoAnswerAvailable == "No answer available"
SorryText == "Sorry, I could not process your question at this time."
\* The answer of the ask operation when the language model cannot be used.
UnableAnswer == "unable to answer"
NoAskResponse == [llm |-> "none", status |-> 0, answer |-> ""]

VARIABLES
  aiQuestion,   \* useState aiQuestion
  aiAnswer,     \* useState aiAnswer
  isLoadingAI,  \* useState isLoadingAI
  aiToast,      \* the toast of the last question: "none" | "success" | "error"
  askCall,      \* the question of the request in flight, or NoAsk
  llm,          \* the language model: "up" | "down" (unreachable or failing)
  askResponse   \* the last answer of the ask operation, with the model's state

askVars == <<aiQuestion, aiAnswer, isLoadingAI, aiToast, askCall, llm, askResponse>>

\* ==================================================================
\* Smoke scripts: test-all-features (part_011), the critical features
\* test (part_016), verify-critical-fixes.sh and
\* verify-ai-functionality.sh, run against a deployment whose services
\* may or may not answer their health checks.
\* ==================================================================
Scripts == {"test-all-features", "critical-features", "verify-critical-fixes", "verify-ai-functionality"}
NoScript == "none"
Services == {"backend", "frontend"}
\* check_service gives up after max_attempts polls, the wait of
\* verify-critical-fixes.sh after MAX_RETRIES.
max_attempts == 30
MAX_RETRIES == 20

VARIABLES
  script,        \* the script that is running, or NoScript
  scriptPc,      \* "idle" | "waiting" | "testing" | "exited"
  waitingFor,    \* the service the wait polls
  attempt,       \* failed polls of the current wait (attempt - 1, RETRY_COUNT)
  healthy,       \* for each service, whether its health check answers now
  TOKEN,         \* the login of the script returned an access token
  TOTAL_TESTS,   \* checks that have run
  PASSED_TESTS,  \* checks that passed
  tallyPrinted,  \* the summary printed the count of passed checks
  exitStatus     \* the exit status, once scriptPc = "exited"

scriptVars == <<script, scriptPc, waitingFor, attempt, healthy, TOKEN,
                TOTAL_TESTS, PASSED_TESTS, tallyPrinted, exitStatus>>

\* ------------------------------------------------------------------ frame
\* The variables of the components declared after the viewer, and for each of
\* them the variables of all the other components.
extVars == <<roomVars, keyVars, shareVars, mfaVars, deleteVars, navVars, apiVars, fallbackVars, compareVars, sessionVars, requestVars, uploadVars, askVars, scriptVars>>
exceptRoomVars == <<lockVars, authVars, jobVars, viewerVars, keyVars, shareVars, mfaVars, deleteVars, navVars, apiVars, fallbackVars, compareVars, sessionVars, requestVars, uploadVars, askVars, scriptVars>>
exceptKeyVars == <<lockVars, authVars, jobVars, viewerVars, roomVars, shareVars, mfaVars, deleteVars, navVars, apiVars, fallbackVars, compareVars, sessionVars, requestVars, uploadVars, askVars, scriptVars>>
exceptShareVars == <<lockVars, authVars, jobVars, viewerVars, roomVars, keyVars, mfaVars, deleteVars, navVars, apiVars, fallbackVars, compareVars, sessionVars, requestVars, uploadVars, askVars, scriptVars>>
exceptMfaVars == <<lockVars, authVars, jobVars, viewerVars, roomVars, keyVars, shareVars, deleteVars, navVars, apiVars, fallbackVars, compareVars, sessionVars, requestVars, uploadVars, askVars, scriptVars>>
exceptDeleteVars == <<lockVars, authVars, jobVars, viewerVars, roomVars, keyVars, shareVars, mfaVars, navVars, apiVars, fallbackVars, compareVars, sessionVars, requestVars, uploadVars, askVars, scriptVars>>
exceptNavVars == <<lockVars, authVars, jobVars, viewerVars, roomVars, keyVars, shareVars, mfaVars, deleteVars, apiVars, fallbackVars, compareVars, sessionVars, requestVars, uploadVars, askVars, scriptVars>>
exceptApiVars == <<lockVars, authVars, jobVars, viewerVars, roomVars, keyVars, shareVars, mfaVars, deleteVars, navVars, fallbackVars, compareVars, sessionVars, requestVars, uploadVars, askVars, scriptVars>>
exceptFallbackVars == <<lockVars, authVars, jobVars, viewerVars, roomVars, keyVars, shareVars, mfaVars, deleteVars, navVars, apiVars, compareVars, sessionVars, requestVars, uploadVars, askVars, scriptVars>>
exceptCompareVars == <<lockVars, authVars, jobVars, viewerVars, roomVars, keyVars, shareVars, mfaVars, deleteVars, navVars, apiVars, fallbackVars, sessionVars, requestVars, uploadVars, askVars, scriptVars>>
exceptSessionVars == <<lockVars, authVars, jobVars, viewerVars, roomVars, keyVars, shareVars, mfaVars, deleteVars, navVars, apiVars, fallbackVars, compareVars, requestVars, uploadVars, askVars, scriptVars>>
exceptRequestVars == <<lockVars, authVars, jobVars, viewerVars, roomVars, keyVars, shareVars, mfaVars, deleteVars, navVars, apiVars, fallbackVars, compareVars, sessionVars, uploadVars, askVars, scriptVars>>
exceptUploadVars == <<lockVars, authVars, jobVars, viewerVars, roomVars, keyVars, shareVars, mfaVars, deleteVars, navVars, apiVars, fallbackVars, compareVars, sessionVars, requestVars, askVars, scriptVars>>
exceptAskVars == <<lockVars, authVars, jobVars, viewerVars, roomVars, keyVars, shareVars, mfaVars, deleteVars, navVars, apiVars, fallbackVars, compareVars, sessionVars, requestVars, uploadVars, scriptVars>>
exceptScriptVars == <<lockVars, authVars, jobVars, viewerVars, roomVars, keyVars, shareVars, mfaVars, deleteVars, navVars, apiVars, fallbackVars, compareVars, sessionVars, requestVars, uploadVars, askVars>>
exceptRoomDeleteVars == <<lockVars, authVars, jobVars, viewerVars, keyVars, shareVars, mfaVars, navVars, apiVars, fallbackVars, compareVars, sessionVars, requestVars, uploadVars, askVars, scriptVars>>
exceptViewerFallbackVars == <<lockVars, authVars, jobVars, roomVars, keyVars, shareVars, mfaVars, deleteVars, navVars, apiVars, compareVars, sessionVars, requestVars, uploadVars, askVars, scriptVars>>
exceptAuthSessionVars == <<lockVars, jobVars, viewerVars, roomVars, keyVars, shareVars, mfaVars, deleteVars, navVars, apiVars, fallbackVars, compareVars, requestVars, uploadVars, askVars, scriptVars>>
exceptRoomDeleteRequestVars == <<lockVars, authVars, jobVars, viewerVars, keyVars, shareVars, mfaVars, navVars, apiVars, fallbackVars, compareVars, sessionVars, uploadVars, askVars, scriptVars>>

vars == <<lockVars, authVars, jobVars, viewerVars, extVars>>

\* ------------------------------------------------------------------ events
DocumentState(d) == [type |-> "document_state", doc |-> d, acquired |-> FALSE]
RedactionLockStatus(d, a) == [type |-> "redaction_lock_status", doc |-> d, acquired |-> a]

\* ------------------------------------------------------------------ init
InitAuth ==
  /\ user = NoUser
  /\ token = NoToken
  /\ isAuthenticated = FALSE
  /\ location = "login"
  /\ needsMfa = FALSE
  /\ now = 0
  /\ issued = {}
  /\ mfaVerified = {}
  /\ pendingUsers = {}
  /\ lastCall = NoCall

InitJobs ==
  /\ docStatus = [d \in JobDocs |-> "none"]
  /\ jobStatus = [d \in JobDocs |-> [j \in JobTypes |-> "none"]]
  /\ attempts = [d \in JobDocs |-> [j \in JobTypes |-> 0]]
  /\ docId = [d \in JobDocs |-> NoId]
  /\ jobRows = [d \in JobDocs |-> <<>>]

InitViewer ==
  /\ redactionMode = FALSE
  /\ commentMode = FALSE
  /\ redactions = {}
  /\ useImageFallback = FALSE
  /\ capturedRedactions = {}
  /\ panEnabled = TRUE
  /\ mouseNavEnabled = TRUE
  /\ isDrawingRef = FALSE
  /\ drawStartRef = <<>>
  /\ suppressCanvasInteractionsRef = FALSE
  /\ draggingRef = <<>>
  /\ resizingRef = <<>>
  /\ pendingUpdateRef = <<>>
  /\ showOsdCommentInput = FALSE
  /\ fbDrawStart = <<>>
  /\ fbResizing = <<>>
  /\ showCommentInput = FALSE
  /\ pressed = <<>>
  /\ released = <<>>
  /\ calls = <<>>

InitRoom ==
  /\ restComments = <<>>
  /\ restRedactions = <<>>
  /\ usedComments = 0
  /\ usedRedactions = 0
  /\ inRoom = [c \in Clients |-> FALSE]
  /\ inbox = [c \in Clients |-> <<>>]
  /\ liveComments = [c \in Clients |-> <<>>]
  /\ liveRedactions = [c \in Clients |-> <<>>]

InitKeys ==
  /\ keyStore = {}
  /\ revokedKeys = {}
  /\ newApiKey = NoKey
  /\ apiKeys = {}
  /\ keyResponse = {}
  /\ disclosed = [id \in KeyIds |-> 0]

InitShares ==
  /\ shareEmail = ""
  /\ sharePermission = "view"
  /\ shareEveryone = FALSE
  /\ shareCalls = <<>>
  /\ shares = <<>>

InitMfa ==
  /\ step = "setup"
  /\ secret = NoSecret
  /\ verificationCode = <<>>
  /\ mfaCall = NoMfaCall
  /\ mfaState = "mfa_disabled"
  /\ mfaSecret = NoSecret
  /\ secretsIssued = 0

InitDeletes ==
  /\ cached = [k \in Kinds |-> <<>>]
  /\ stale = [k \in Kinds |-> FALSE]
  /\ deleting = [k \in Kinds |-> {}]
  /\ deletion = [k \in Kinds |-> [id \in ItemIds |-> NoAnswer]]

InitNav == pathname = "/login"

InitApi ==
  /\ apiDocs = {}
  /\ apiCreated = 0
  /\ apiLast = NoRequest

\* The component is mounted: the effect has created the viewer and set the
\* timer.
InitFallback ==
  /\ pageNumber = 0
  /\ osd = "loading"
  /\ timerArmed = TRUE
  /\ elapsed = 0
  /\ attached = TRUE

InitCompare ==
  /\ region = <<>>
  /\ osdCreated = <<>>
  /\ fbCreated = <<>>

InitSession ==
  /\ storage = [user |-> NoUser, token |-> NoToken, isAuthenticated |-> FALSE]
  /\ redirected = FALSE

InitRequests ==
  /\ inFlight = [k \in Kinds |-> [id \in ItemIds |-> 0]]
  /\ effectRedactions = <<>>
  /\ effectDeleting = {}

InitUpload ==
  /\ files = <<>>
  /\ added = 0
  /\ uploads = <<>>

InitAsk ==
  /\ aiQuestion = ""
  /\ aiAnswer = ""
  /\ isLoadingAI = FALSE
  /\ aiToast = "none"
  /\ askCall = NoAsk
  /\ llm = "up"
  /\ askResponse = NoAskResponse

InitScripts ==
  /\ script = NoScript
  /\ scriptPc = "idle"
  /\ waitingFor = "backend"
  /\ attempt = 0
  /\ healthy = [s \in Services |-> FALSE]
  /\ TOKEN = FALSE
  /\ TOTAL_TESTS = 0
  /\ PASSED_TESTS = 0
  /\ tallyPrinted = FALSE
  /\ exitStatus = 0

InitLock ==
  /\ page = [c \in Clients |-> "closed"]
  /\ documentId = [c \in Clients |-> NoDoc]
  /\ mode = [c \in Clients |-> "view"]
  /\ hasRedactionLock = [c \in Clients |-> FALSE]
  /\ createPc = [c \in Clients |-> "idle"]
  /\ posts = [c \in Clients |-> 0]
  /\ link = [c \in Clients |-> "none"]
  /\ toClient = [c \in Clients |-> <<>>]
  /\ room = [d \in Docs |-> {}]
  /\ lock = [d \in Docs |-> NoClient]

Init == InitLock /\ InitAuth /\ InitJobs /\ InitViewer /\ InitRoom /\ InitKeys /\ InitShares /\ InitMfa /\ InitDeletes /\ InitNav /\ InitApi /\ InitFallback /\ InitCompare /\ InitSession /\ InitRequests /\ InitUpload /\ InitAsk /\ InitScripts

\* ------------------------------------------------------------------ gateway
\* The gateway handles the events of all connections one at a time, those of
\* one connection in the order they were emitted. An emitted event is handled
\* in the step that emits it; the answer travels back through toClient. An
\* event emitted on a lost connection is never delivered (the model does not
\* reconnect).

\* A gateway that grants every request.
GrantsAlways(c, d) == TRUE

\* The answer to acquire_redaction_lock: first requester wins.
Grants(c, d) == lock[d] = NoClient \/ lock[d] = c

\* join_document: the connection enters the room and gets the snapshot.
GatewayJoin(c, d) ==
  /\ room' = [room EXCEPT ![d] = @ \cup {c}]
  /\ toClient' = [toClient EXCEPT ![c] = Append(@, DocumentState(d))]
  /\ UNCHANGED lock

\* leave_document: the connection leaves the room; its lock is released.
GatewayLeave(c, d) ==
  /\ room' = [room EXCEPT ![d] = @ \ {c}]
  /\ lock' = [lock EXCEPT ![d] = IF @ = c THEN NoClient ELSE @]
  /\ UNCHANGED toClient

\* acquire_redaction_lock: granted if the lock is free (or already the
\* requester's), denied otherwise; the requester is told which.
GatewayAcquire(c, d) ==
  /\ lock' = [lock EXCEPT ![d] = IF Grants(c, d) THEN c ELSE @]
  /\ toClient' = [toClient EXCEPT ![c] = Append(@, RedactionLockStatus(d, Grants(c, d)))]
  /\ UNCHANGED room

\* release_redaction_lock: only the holder's release frees the lock.
GatewayRelease(c, d) ==
  /\ lock' = [lock EXCEPT ![d] = IF @ = c THEN NoClient ELSE @]
  /\ UNCHANGED <<room, toClient>>

\* disconnect: the connection leaves every room and its locks are released.
GatewayDisconnect(c) ==
  /\ link' = [link EXCEPT ![c] = "down"]
  /\ toClient' = [toClient EXCEPT ![c] = <<>>]
  /\ room' = [d \in Docs |-> room[d] \ {c}]
  /\ lock' = [d \in Docs |-> IF lock[d] = c THEN NoClient ELSE lock[d]]

\* socket.emit of an event the gateway answers.
CanEmit(c) == link[c] = "up" => Len(toClient[c]) < MaxQueue

EmitAcquire(c) ==
  IF link[c] = "up" THEN GatewayAcquire(c, documentId[c]) /\ UNCHANGED link
  ELSE UNCHANGED gatewayVars

EmitRelease(c) ==
  IF link[c] = "up" THEN GatewayRelease(c, documentId[c]) /\ UNCHANGED link
  ELSE UNCHANGED gatewayVars

\* ------------------------------------------------------------------ page
\* Mount of DocumentViewerPage: the socket effect connects and the 'connect'
\* handler emits join_document.
OpenPage(c, d) ==
  /\ page[c] = "closed"
  /\ page' = [page EXCEPT ![c] = "open"]
  /\ documentId' = [documentId EXCEPT ![c] = d]
  /\ link' = [link EXCEPT ![c] = "up"]
  /\ GatewayJoin(c, d)
  /\ UNCHANGED <<mode, hasRedactionLock, createPc, posts>>

\* A [mode] effect that drops the flag without telling the gateway.
ModeEffectNoRelease(c, m) ==
  IF m = "redact"
  THEN /\ EmitAcquire(c)
       /\ UNCHANGED hasRedactionLock
  ELSE /\ hasRedactionLock' = [hasRedactionLock EXCEPT ![c] = FALSE]
       /\ UNCHANGED gatewayVars

\* The effect on [mode]: entering redact mode asks for the lock, leaving it
\* releases the lock if the page believes it holds it.
ModeEffect(c, m) ==
  IF m = "redact"
  THEN /\ EmitAcquire(c)
       /\ UNCHANGED hasRedactionLock
  ELSE IF hasRedactionLock[c]
  THEN /\ EmitRelease(c)
       /\ hasRedactionLock' = [hasRedactionLock EXCEPT ![c] = FALSE]
  ELSE UNCHANGED <<gatewayVars, hasRedactionLock>>

SetMode(c, m) ==
  /\ page[c] = "open"
  /\ CanEmit(c)
  /\ mode' = [mode EXCEPT ![c] = m]
  /\ ModeEffect(c, m)
  /\ UNCHANGED <<page, documentId, createPc, posts>>

\* The Redact button.
ToggleRedact(c) == SetMode(c, IF mode[c] = "redact" THEN "view" ELSE "redact")

\* The Comment button.
ToggleComment(c) == SetMode(c, IF mode[c] = "comment" THEN "view" ELSE "comment")

\* s.on('document_state'): the snapshot replaces the live lists.
RecvDocumentState(c) ==
  /\ page[c] = "open"
  /\ toClient[c] # <<>>
  /\ Head(toClient[c]).type = "document_state"
  /\ toClient' = [toClient EXCEPT ![c] = Tail(@)]
  /\ UNCHANGED <<pageVars, link, room, lock>>

\* A redaction_lock_status handler that leaves the mode alone on a denial.
RecvLockStatusKeepsMode(c) ==
  /\ page[c] = "open"
  /\ toClient[c] # <<>>
  /\ Head(toClient[c]).type = "redaction_lock_status"
  /\ toClient' = [toClient EXCEPT ![c] = Tail(@)]
  /\ IF Head(toClient[c]).doc = documentId[c]
     THEN hasRedactionLock' = [hasRedactionLock EXCEPT ![c] = Head(toClient[c]).acquired]
     ELSE UNCHANGED hasRedactionLock
  /\ UNCHANGED <<page, documentId, mode, createPc, posts, link, room, lock>>

\* s.on('redaction_lock_status'): the flag follows the answer; a denial puts
\* the page back into view mode (the [mode] effect then finds the flag false
\* and emits nothing).
RecvLockStatus(c) ==
  /\ page[c] = "open"
  /\ toClient[c] # <<>>
  /\ Head(toClient[c]).type = "redaction_lock_status"
  /\ toClient' = [toClient EXCEPT ![c] = Tail(@)]
  /\ IF Head(toClient[c]).doc = documentId[c]
     THEN /\ hasRedactionLock' = [hasRedactionLock EXCEPT ![c] = Head(toClient[c]).acquired]
          /\ mode' = [mode EXCEPT ![c] = IF Head(toClient[c]).acquired THEN @ ELSE "view"]
     ELSE UNCHANGED <<hasRedactionLock, mode>>
  /\ UNCHANGED <<page, documentId, createPc, posts, link, room, lock>>

\* POST /documents/{id}/redactions.
AddRedaction(c) == posts' = [posts EXCEPT ![c] = @ + 1]

\* handleCreateRedaction, called by the viewer when a rectangle has been drawn.
\* `seen` is the hasRedactionLock of the render the callback was created in:
\* the current one, or the one of the render in which redact mode was entered
\* (the deep-zoom viewer keeps the callback of that render), which is false.
\* Without the lock the handler asks for it, waits 100 ms and goes on anyway.
HandleCreateRedaction(c) ==
  /\ page[c] = "open"
  /\ mode[c] = "redact"
  /\ createPc[c] = "idle"
  /\ posts[c] < MaxPosts
  /\ CanEmit(c)
  /\ \E seen \in {hasRedactionLock[c], FALSE} :
       IF ~seen
       THEN /\ EmitAcquire(c)
            /\ createPc' = [createPc EXCEPT ![c] = "waiting"]
            /\ UNCHANGED posts
       ELSE /\ AddRedaction(c)
            /\ UNCHANGED <<gatewayVars, createPc>>
  /\ UNCHANGED <<page, documentId, mode, hasRedactionLock>>

\* handleCreateRedaction after the wait: the request is sent whatever the
\* answer to acquire_redaction_lock was.
CreateAfterWait(c) ==
  /\ createPc[c] = "waiting"
  /\ createPc' = [createPc EXCEPT ![c] = "idle"]
  /\ AddRedaction(c)
  /\ UNCHANGED <<page, documentId, mode, hasRedactionLock, gatewayVars>>

\* Cleanup of the socket effect (unmount). The hasRedactionLock it tests is
\* the one of the render the effect ran in, the mount, where it is false: no
\* release is emitted, only leave_document, then the socket is told to
\* disconnect; the handlers are gone with the page.
ClosePage(c) ==
  /\ page[c] = "open"
  /\ page' = [page EXCEPT ![c] = "left"]
  /\ IF link[c] = "up"
     THEN GatewayLeave(c, documentId[c]) /\ UNCHANGED link
     ELSE UNCHANGED gatewayVars
  /\ UNCHANGED <<documentId, mode, hasRedactionLock, createPc, posts>>

\* The gateway notices that a connection is gone: the page's socket was
\* closed by the cleanup, or the connection was lost under an open page.
ConnectionLost(c) ==
  /\ link[c] = "up"
  /\ GatewayDisconnect(c)
  /\ UNCHANGED pageVars

NextLock ==
  \/ \E c \in Clients, d \in Docs : OpenPage(c, d) /\ UNCHANGED <<authVars, jobVars, viewerVars, extVars>>
  \/ \E c \in Clients : ToggleRedact(c) /\ UNCHANGED <<authVars, jobVars, viewerVars, extVars>>
  \/ \E c \in Clients : ToggleComment(c) /\ UNCHANGED <<authVars, jobVars, viewerVars, extVars>>
  \/ \E c \in Clients : RecvDocumentState(c) /\ UNCHANGED <<authVars, jobVars, viewerVars, extVars>>
  \/ \E c \in Clients : RecvLockStatus(c) /\ UNCHANGED <<authVars, jobVars, viewerVars, extVars>>
  \/ \E c \in Clients : HandleCreateRedaction(c) /\ UNCHANGED <<authVars, jobVars, viewerVars, extVars>>
  \/ \E c \in Clients : CreateAfterWait(c) /\ UNCHANGED <<authVars, jobVars, viewerVars, extVars>>
  \/ \E c \in Clients : ClosePage(c) /\ UNCHANGED <<authVars, jobVars, viewerVars, extVars>>
  \/ \E c \in Clients : ConnectionLost(c) /\ UNCHANGED <<authVars, jobVars, viewerVars, extVars>>

SpecLock == Init /\ [][NextLock]_vars

\* The socket delivers every event it has received from the gateway: a handler
\* that is registered and has an event waiting runs. What the user does
\* (buttons, drawing, leaving the page) and the loss of a connection may
\* never happen.
SpecLockFair ==
  /\ SpecLock
  /\ \A c \in Clients : WF_vars(RecvLockStatus(c) /\ UNCHANGED <<authVars, jobVars, viewerVars, extVars>>)
  /\ \A c \in Clients : WF_vars(RecvDocumentState(c) /\ UNCHANGED <<authVars, jobVars, viewerVars, extVars>>)
  /\ \A c \in Clients : WF_vars(CreateAfterWait(c) /\ UNCHANGED <<authVars, jobVars, viewerVars, extVars>>)

\* ------------------------------------------------------------------ service
\* POST /auth/login: Unauthorized for a wrong password or an unknown account;
\* mfa_required instead of a token when the account has MFA enabled.
LoginResponse(e, pw) ==
  IF e \notin Accounts \/ pw # Password(e) THEN [status |-> 401, body |-> "detail"]
  ELSE IF MfaEnabled(e) THEN [status |-> 200, body |-> "mfa_required"]
  ELSE [status |-> 200, body |-> "access_token"]

\* POST /auth/mfa/verify: a token for the account's current code, otherwise
\* InvalidCredentials.
VerifyResponse(e, code) ==
  IF e \in Accounts /\ MfaEnabled(e) /\ code = Totp(MfaSecret(e), now)
  THEN [status |-> 200, body |-> "access_token"]
  ELSE [status |-> 401, body |-> "detail"]

\* POST /auth/register: Conflict for a duplicate email.
RegisterResponse(e) ==
  IF e \in Accounts \cup pendingUsers
  THEN [status |-> 409, body |-> "detail"]
  ELSE [status |-> 200, body |-> "pending"]

\* The authorization check of a protected route: a signed, unexpired token.
Authorized(tok) == tok.signed /\ now - tok.iat < TokenTtl

\* ------------------------------------------------------------------ client
\* An interceptor that takes every request for part of the authentication flow.
isAuthFlowAlways(url) == TRUE

\* The response interceptor's test for the authentication flow.
isAuthFlow(url) ==
  \/ Includes(url, <<"api", "auth", "login">>)
  \/ Includes(url, <<"api", "auth", "mfa">>)
  \/ Includes(url, <<"api", "auth", "register">>)

\* The response interceptor logs out and redirects to /login on a 401 outside
\* the authentication flow.
Rejects(url, status) == status = 401 /\ ~isAuthFlow(url)

\* A store set that keeps the token it had.
SetSessionKeepsToken(u, tok, auth) ==
  /\ user' = u
  /\ token' = token
  /\ isAuthenticated' = auth

\* The store's set({user, token, isAuthenticated}).
SetSession(u, tok, auth) ==
  /\ user' = u
  /\ token' = tok
  /\ isAuthenticated' = auth

\* useAuthStore.login: `result` is what it returns.
\* A login that takes the mfa_required answer for a success.
loginIgnoringMfa(e, pw, code, result) ==
  LET url == IF code = <<>> THEN LoginUrl ELSE VerifyUrl
      resp == IF code = <<>> THEN LoginResponse(e, pw) ELSE VerifyResponse(e, code)
  IN  /\ lastCall' = Call(url, e, code, resp.status, resp.body)
      /\ IF resp.status = 200
         THEN /\ result = "true"
              /\ SetSession(e, AccessToken(e, now), TRUE)
              /\ issued' = IF resp.body = "access_token" THEN issued \cup {e} ELSE issued
              /\ mfaVerified' = IF code # <<>> THEN mfaVerified \cup {e} ELSE mfaVerified
         ELSE /\ result = "false"
              /\ IF Rejects(url, resp.status)
                 THEN SetSession(NoUser, NoToken, FALSE)
                 ELSE UNCHANGED storeVars
              /\ UNCHANGED <<issued, mfaVerified>>
      /\ UNCHANGED pendingUsers

login(e, pw, code, result) ==
  LET url == IF code = <<>> THEN LoginUrl ELSE VerifyUrl
      resp == IF code = <<>> THEN LoginResponse(e, pw) ELSE VerifyResponse(e, code)
  IN  /\ lastCall' = Call(url, e, code, resp.status, resp.body)
      /\ IF resp.status = 200 /\ resp.body = "mfa_required"
         THEN /\ result = "mfa_required"
              /\ UNCHANGED <<storeVars, issued, mfaVerified>>
         ELSE IF resp.status = 200
         THEN /\ result = "true"
              /\ SetSession(e, AccessToken(e, now), TRUE)
              /\ issued' = issued \cup {e}
              /\ mfaVerified' = IF code # <<>> THEN mfaVerified \cup {e} ELSE mfaVerified
         ELSE /\ result = "false"
              /\ IF Rejects(url, resp.status)
                 THEN SetSession(NoUser, NoToken, FALSE)
                 ELSE UNCHANGED storeVars
              /\ UNCHANGED <<issued, mfaVerified>>
      /\ UNCHANGED pendingUsers

\* LoginPage onSubmit. A redirect by the interceptor reloads the page, which
\* resets the page's state.
onSubmit(e, pw, code) ==
  /\ location = "login"
  /\ \E result \in {"mfa_required", "true", "false"} :
       /\ login(e, pw, code, result)
       /\ needsMfa' = (result = "mfa_required")
       /\ location' = IF result = "true" THEN "dashboard" ELSE "login"
  /\ UNCHANGED now

\* useAuthStore.register, from the login page's registration form.
register(e) ==
  /\ location = "login"
  /\ LET resp == RegisterResponse(e)
     IN  /\ lastCall' = Call(RegisterUrl, e, <<>>, resp.status, resp.body)
         /\ pendingUsers' = IF resp.status = 200 THEN pendingUsers \cup {e} ELSE pendingUsers
  /\ UNCHANGED <<storeVars, location, needsMfa, now, issued, mfaVerified>>

\* useAuthStore.logout, from the navigation bar; the route guard then shows
\* the login page.
logout ==
  /\ location = "dashboard"
  /\ SetSession(NoUser, NoToken, FALSE)
  /\ location' = "login"
  /\ lastCall' = NoCall
  /\ UNCHANGED <<needsMfa, now, serviceVars>>

\* A request of the application to a protected endpoint, with the request
\* interceptor's bearer token and the response interceptor's handling.
apiRequest(url) ==
  /\ location = "dashboard"
  /\ LET status == IF Authorized(token) THEN 200 ELSE 401
     IN  /\ lastCall' = Call(url, user, <<>>, status, "data")
         /\ IF Rejects(url, status)
            THEN /\ SetSession(NoUser, NoToken, FALSE)
                 /\ location' = "login"
            ELSE UNCHANGED <<storeVars, location>>
  /\ UNCHANGED <<needsMfa, now, serviceVars>>

\* Time passes: the TOTP code changes and tokens age.
Tick ==
  /\ now < MaxTime
  /\ now' = now + 1
  /\ lastCall' = NoCall
  /\ UNCHANGED <<storeVars, location, needsMfa, serviceVars>>

NextAuth ==
  \/ \E e \in Emails, pw \in Passwords, code \in MfaCodes : onSubmit(e, pw, code) /\ UNCHANGED <<lockVars, jobVars, viewerVars, extVars>>
  \/ \E e \in Emails : register(e) /\ UNCHANGED <<lockVars, jobVars, viewerVars, extVars>>
  \/ logout /\ UNCHANGED <<lockVars, jobVars, viewerVars, extVars>>
  \/ \E url \in ProtectedUrls : apiRequest(url) /\ UNCHANGED <<lockVars, jobVars, viewerVars, extVars>>
  \/ Tick /\ UNCHANGED <<lockVars, jobVars, viewerVars, extVars>>

SpecAuth == Init /\ [][NextAuth]_vars

\* ------------------------------------------------------------------ worker
\* Document creation: the response carries the new id, the three jobs are
\* created pending and the pipeline run is enqueued. The documents are named
\* in the order they are created.
CreateDocument(d) ==
  /\ docStatus[d] = "none"
  /\ d = "doc-b" => docStatus["doc-a"] # "none"
  /\ docStatus' = [docStatus EXCEPT ![d] = "new"]
  /\ docId' = [docId EXCEPT ![d] = 1 + Cardinality({e \in JobDocs : docId[e] # NoId})]
  /\ jobRows' = [jobRows EXCEPT ![d] = PipelineJobs]
  /\ jobStatus' = [jobStatus EXCEPT ![d] =
                     [j \in JobTypes |-> IF \E i \in DOMAIN PipelineJobs : PipelineJobs[i] = j
                                         THEN "pending" ELSE "none"]]
  /\ UNCHANGED attempts

\* A worker takes a job from the queue.
StartJob(d, j) ==
  /\ jobStatus[d][j] = "pending"
  /\ jobStatus' = [jobStatus EXCEPT ![d][j] = "running"]
  /\ docStatus' = [docStatus EXCEPT ![d] = IF @ = "new" THEN "processing" ELSE @]
  /\ UNCHANGED attempts
  /\ UNCHANGED <<docId, jobRows>>

\* A pipeline that marks the document completed with its first finished job.
StatusAfterAnyJob(d, js) == "completed"

\* The document's status once a stage has completed: completed only when all
\* three jobs have succeeded.
StatusAfter(d, js) ==
  IF \A j \in JobTypes : js[j] = "completed" THEN "completed" ELSE docStatus[d]

\* A stage completes; job and document rows are written in one transaction.
JobSucceeds(d, j) ==
  /\ jobStatus[d][j] = "running"
  /\ jobStatus' = [jobStatus EXCEPT ![d][j] = "completed"]
  /\ docStatus' = [docStatus EXCEPT ![d] = StatusAfter(d, jobStatus'[d])]
  /\ UNCHANGED attempts
  /\ UNCHANGED <<docId, jobRows>>

\* A stage raises: the job is retried while retries are left, then it is
\* failed for good and the document is marked failed.
JobRaises(d, j) ==
  /\ jobStatus[d][j] = "running"
  /\ IF attempts[d][j] < MaxRetries
     THEN /\ jobStatus' = [jobStatus EXCEPT ![d][j] = "pending"]
          /\ attempts' = [attempts EXCEPT ![d][j] = @ + 1]
          /\ UNCHANGED docStatus
     ELSE /\ jobStatus' = [jobStatus EXCEPT ![d][j] = "failed"]
          /\ docStatus' = [docStatus EXCEPT ![d] = "failed"]
          /\ UNCHANGED attempts
  /\ UNCHANGED <<docId, jobRows>>

\* An operator re-triggers a failed job.
Retrigger(d, j) ==
  /\ jobStatus[d][j] = "failed"
  /\ jobStatus' = [jobStatus EXCEPT ![d][j] = "pending"]
  /\ attempts' = [attempts EXCEPT ![d][j] = 0]
  /\ docStatus' = [docStatus EXCEPT ![d] = "processing"]
  /\ UNCHANGED <<docId, jobRows>>

NextJobs ==
  \/ \E d \in JobDocs : CreateDocument(d) /\ UNCHANGED <<lockVars, authVars, viewerVars, extVars>>
  \/ \E d \in JobDocs, j \in JobTypes : StartJob(d, j) /\ UNCHANGED <<lockVars, authVars, viewerVars, extVars>>
  \/ \E d \in JobDocs, j \in JobTypes : JobSucceeds(d, j) /\ UNCHANGED <<lockVars, authVars, viewerVars, extVars>>
  \/ \E d \in JobDocs, j \in JobTypes : JobRaises(d, j) /\ UNCHANGED <<lockVars, authVars, viewerVars, extVars>>
  \/ \E d \in JobDocs, j \in JobTypes : Retrigger(d, j) /\ UNCHANGED <<lockVars, authVars, viewerVars, extVars>>

SpecJobs == Init /\ [][NextJobs]_vars

\* ------------------------------------------------------------------ viewer
\* The refs and state the pointer handlers of the deep-zoom renderer work on,
\* and the callbacks they make.
Refs ==
  [isDrawing |-> isDrawingRef, drawStart |-> drawStartRef,
   suppress |-> suppressCanvasInteractionsRef,
   dragging |-> draggingRef, resizing |-> resizingRef, pending |-> pendingUpdateRef,
   nav |-> mouseNavEnabled, input |-> showOsdCommentInput, calls |-> <<>>]

SetRefs(r) ==
  /\ isDrawingRef' = r.isDrawing
  /\ drawStartRef' = r.drawStart
  /\ suppressCanvasInteractionsRef' = r.suppress
  /\ draggingRef' = r.dragging
  /\ resizingRef' = r.resizing
  /\ pendingUpdateRef' = r.pending
  /\ mouseNavEnabled' = r.nav
  /\ showOsdCommentInput' = r.input
  /\ calls' = r.calls

\* onRedactionCreate / onRedactionUpdate / onRedactionDelete.
CreateCall(x1, y1, x2, y2) ==
  [kind |-> "create", id |-> 0, x_start |-> x1, y_start |-> y1, x_end |-> x2, y_end |-> y2]
UpdateCall(id, x1, y1, x2, y2) ==
  [kind |-> "update", id |-> id, x_start |-> x1, y_start |-> y1, x_end |-> x2, y_end |-> y2]
DeleteCall(id) ==
  [kind |-> "delete", id |-> id, x_start |-> 0, y_start |-> 0, x_end |-> 0, y_end |-> 0]

\* The position in image coordinates, as the renderer shown converts it.
ToImage(pt) ==
  IF useImageFallback THEN <<FallbackX(pt[1]), FallbackY(pt[2])>> ELSE ImagePoint(pt)

Inside(img, b) == img[1] >= b.x1 /\ img[1] <= b.x2 /\ img[2] >= b.y1 /\ img[2] <= b.y2

\* The redaction overlays on screen: the deep-zoom renderer shows them when
\* showRedactions is set (view and redact mode), the fallback always.
ShownRedactions == IF useImageFallback \/ ~commentMode THEN redactions ELSE {}

\* The element under the pointer: the resize handle sits in the overlay's
\* bottom-right corner, the delete button in its top-right corner.
Target(pt) ==
  LET under == {r \in ShownRedactions : Inside(ToImage(pt), Box(r))}
  IN  IF under = {} THEN "canvas"
      ELSE LET b == Box(CHOOSE r \in under : TRUE)
           IN  IF ToImage(pt) = <<b.x2, b.y2>> THEN "handle"
               ELSE IF ToImage(pt) = <<b.x2, b.y1>> THEN "delete"
               ELSE "overlay"

OverlayUnder(pt) == Box(CHOOSE r \in ShownRedactions : Inside(ToImage(pt), Box(r)))

\* hitTestRedaction: over the redactions the effect closed over.
hitTestRedaction(img) ==
  LET under == {r \in capturedRedactions : Inside(img, Box(r))}
  IN  IF under = {} THEN <<>> ELSE <<Box(CHOOSE r \in under : TRUE)>>

isInDeleteHotspot(img, b) ==
  img[1] >= b.x2 - HotspotSize /\ img[1] <= b.x2 /\ img[2] >= b.y1 /\ img[2] <= b.y1 + HotspotSize

isInResizeHotspot(img, b) ==
  img[1] >= b.x2 - HotspotSize /\ img[1] <= b.x2 /\ img[2] >= b.y2 - HotspotSize /\ img[2] <= b.y2

Grab(b, img) == [id |-> b.id, startX |-> img[1], startY |-> img[2], orig |-> b]

\* Delegated capture handler on the viewer root (pointerdown and mousedown):
\* on an overlay or its handle it takes the gesture and stops the event.
onMouseDownCapture(r, pt, target) ==
  LET g == Grab(OverlayUnder(pt), ImagePoint(pt))
  IN  [r EXCEPT !.isDrawing = FALSE, !.suppress = TRUE, !.nav = FALSE,
                !.resizing = IF target = "handle" THEN <<g>> ELSE @,
                !.dragging = IF target = "handle" THEN @ ELSE <<g>>]

\* canvas-press handler that starts a drag or resize by hit-test.
canvasPressHitTest(r, pt) ==
  LET hit == hitTestRedaction(ImagePoint(pt))
  IN  IF ~redactionMode \/ hit = <<>> THEN r
      ELSE IF isInResizeHotspot(ImagePoint(pt), hit[1])
      THEN [r EXCEPT !.isDrawing = FALSE, !.suppress = TRUE, !.pending = <<>>,
                     !.resizing = <<Grab(hit[1], ImagePoint(pt))>>]
      ELSE [r EXCEPT !.isDrawing = FALSE, !.suppress = TRUE, !.pending = <<>>,
                     !.dragging = <<Grab(hit[1], ImagePoint(pt))>>]

\* canvas-press handler that starts a new rectangle.
canvasPressDraw(r, pt) ==
  IF r.suppress THEN r
  ELSE IF redactionMode /\ ~r.isDrawing
  THEN [r EXCEPT !.drawStart = <<pt>>, !.isDrawing = TRUE]
  ELSE r

\* canvas-release handler that clears the suppression.
canvasReleaseClear(r) == IF r.suppress THEN [r EXCEPT !.suppress = FALSE] ELSE r

Clamp(v, hi) == Max(0, Min(hi, v))

\* A test that keeps a rectangle when either side is large enough.
OsdExceedsMinEither(w, h) == w > MinSize \/ h > MinSize

\* The size test of the deep-zoom renderer.
OsdExceedsMin(w, h) == w > MinSize /\ h > MinSize

\* canvas-release handler that ends the drawing: image coordinates, clamped
\* to the content size, and the create request if the rectangle is large enough.
canvasReleaseDraw(r, pt) ==
  IF ~(redactionMode /\ r.isDrawing /\ r.drawStart # <<>>) THEN r
  ELSE LET startImage == ImagePoint(r.drawStart[1])
           endImage == ImagePoint(pt)
           x_start == Clamp(Min(startImage[1], endImage[1]), OsdWidth)
           y_start == Clamp(Min(startImage[2], endImage[2]), OsdHeight)
           x_end == Clamp(Max(startImage[1], endImage[1]), OsdWidth)
           y_end == Clamp(Max(startImage[2], endImage[2]), OsdHeight)
       IN  [r EXCEPT !.isDrawing = FALSE, !.drawStart = <<>>,
                     !.calls = IF OsdExceedsMin(Abs(x_end - x_start), Abs(y_end - y_start))
                               THEN Append(@, CreateCall(x_start, y_start, x_end, y_end))
                               ELSE @]

\* canvas-click handler that opens the comment input.
canvasClickComment(r) ==
  IF r.suppress \/ redactionMode \/ ~commentMode THEN r
  ELSE [r EXCEPT !.input = TRUE]

\* canvas-click handler for the delete hotspot; `ok` is the answer to confirm().
canvasClickDelete(r, pt, ok) ==
  LET hit == hitTestRedaction(ImagePoint(pt))
  IN  IF redactionMode /\ hit # <<>> /\ isInDeleteHotspot(ImagePoint(pt), hit[1])
      THEN [r EXCEPT !.suppress = TRUE,
                     !.calls = IF ok THEN Append(@, DeleteCall(hit[1].id)) ELSE @]
      ELSE r

\* Window mousemove handler: a drag moves the rectangle, a resize moves its
\* bottom-right corner; the proposal is clamped to the content size.
onMove(r, pt) ==
  LET img == ImagePoint(pt)
  IN  IF r.dragging # <<>>
      THEN LET d == r.dragging[1]
               dx == img[1] - d.startX
               dy == img[2] - d.startY
               x1 == Clamp(d.orig.x1 + dx, OsdWidth)
               y1 == Clamp(d.orig.y1 + dy, OsdHeight)
               x2 == Clamp(d.orig.x2 + dx, OsdWidth)
               y2 == Clamp(d.orig.y2 + dy, OsdHeight)
           IN  [r EXCEPT !.pending = <<[id |-> d.id, x1 |-> Min(x1, x2), y1 |-> Min(y1, y2),
                                        x2 |-> Max(x1, x2), y2 |-> Max(y1, y2)]>>]
      ELSE IF r.resizing # <<>>
      THEN LET d == r.resizing[1]
               dx == img[1] - d.startX
               dy == img[2] - d.startY
               x1 == d.orig.x1
               y1 == d.orig.y1
               x2 == Clamp(Max(x1 + 2, d.orig.x2 + dx), OsdWidth)
               y2 == Clamp(Max(y1 + 2, d.orig.y2 + dy), OsdHeight)
           IN  [r EXCEPT !.pending = <<[id |-> d.id, x1 |-> Min(x1, x2), y1 |-> Min(y1, y2),
                                        x2 |-> Max(x1, x2), y2 |-> Max(y1, y2)]>>]
      ELSE r

\* Window mouseup handler: ends the overlay interaction and commits the
\* pending proposal.
onUp(r) ==
  [r EXCEPT !.nav = TRUE, !.suppress = FALSE, !.pending = <<>>,
            !.dragging = <<>>, !.resizing = <<>>,
            !.calls = IF r.pending # <<>>
                      THEN Append(@, UpdateCall(r.pending[1].id, r.pending[1].x1, r.pending[1].y1,
                                                r.pending[1].x2, r.pending[1].y2))
                      ELSE @]

\* Delegated click handler on the viewer root, for the delete button.
onClickCapture(r, pt, ok) ==
  [r EXCEPT !.calls = IF ok THEN Append(@, DeleteCall(OverlayUnder(pt).id)) ELSE @]

\* The size test of the fallback renderer.
FallbackExceedsMin(w, h) == w > MinSize /\ h > MinSize

\* Fallback: the document mouseup listener set by the <img>'s onMouseDown.
\* The coordinates are not clamped.
handleGlobalMouseUp(start, pt) ==
  LET imgX1 == FallbackX(Min(start[1], pt[1]))
      imgY1 == FallbackY(Min(start[2], pt[2]))
      imgX2 == FallbackX(Max(start[1], pt[1]))
      imgY2 == FallbackY(Max(start[2], pt[2]))
  IN  IF FallbackExceedsMin(Abs(imgX2 - imgX1), Abs(imgY2 - imgY1))
      THEN <<CreateCall(imgX1, imgY1, imgX2, imgY2)>>
      ELSE <<>>

\* Fallback: where an image coordinate is drawn on the <img>.
ScreenX(v) == (v * RectWidth) \div FallbackWidth
ScreenY(v) == (v * RectHeight) \div FallbackHeight

\* Fallback: onMouseDown of the resize handle.
FallbackGrab(b, pt) ==
  [id |-> b.id, startX |-> pt[1], startY |-> pt[2],
   x |-> ScreenX(b.x1), y |-> ScreenY(b.y1),
   origW |-> ScreenX(b.x2 - b.x1), origH |-> ScreenY(b.y2 - b.y1),
   w |-> ScreenX(b.x2 - b.x1), h |-> ScreenY(b.y2 - b.y1)]

\* Fallback: the handle's mousemove listener resizes the overlay element.
handleMove(g, pt) ==
  [g EXCEPT !.w = Max(2, g.origW + (pt[1] - g.startX)),
            !.h = Max(2, g.origH + (pt[2] - g.startY))]

\* Fallback: the handle's mouseup listener sends the element's rectangle.
handleUp(g) ==
  <<UpdateCall(g.id, FallbackX(g.x), FallbackY(g.y), FallbackX(g.x + g.w), FallbackY(g.y + g.h))>>

OnPage(pt) == pt[1] >= 0 /\ pt[1] <= RectWidth /\ pt[2] >= 0 /\ pt[2] <= RectHeight

propVars == <<redactionMode, commentMode, redactions, useImageFallback,
              capturedRedactions, panEnabled>>

\* The pointer goes down: pointerdown/mousedown with the handlers in the
\* order the browser calls them.
Press(pt) ==
  /\ pressed = <<>>
  /\ released' = <<>>
  /\ LET target == Target(pt)
         taken == target \in {"overlay", "handle"}
     IN  IF useImageFallback
         THEN /\ OnPage(pt)
              /\ fbDrawStart' = IF target = "canvas" /\ redactionMode THEN <<pt>> ELSE fbDrawStart
              /\ fbResizing' = IF target = "handle" THEN <<FallbackGrab(OverlayUnder(pt), pt)>>
                               ELSE fbResizing
              /\ SetRefs(Refs)
              /\ pressed' = <<[target |-> target, canvas |-> FALSE, at |-> pt]>>
         ELSE /\ SetRefs(IF taken THEN onMouseDownCapture(Refs, pt, target)
                         ELSE IF mouseNavEnabled
                         THEN canvasPressDraw(canvasPressHitTest(Refs, pt), pt)
                         ELSE Refs)
              /\ pressed' = <<[target |-> target, canvas |-> ~taken /\ mouseNavEnabled, at |-> pt]>>
              /\ UNCHANGED <<fbDrawStart, fbResizing>>
  /\ UNCHANGED <<propVars, showCommentInput>>

\* The pointer moves while down.
Move(pt) ==
  /\ pressed # <<>>
  /\ released' = <<>>
  /\ IF useImageFallback
     THEN /\ fbResizing' = IF fbResizing # <<>> THEN <<handleMove(fbResizing[1], pt)>> ELSE fbResizing
          /\ SetRefs(Refs)
     ELSE /\ SetRefs(onMove(Refs, pt))
          /\ UNCHANGED fbResizing
  /\ UNCHANGED <<propVars, fbDrawStart, showCommentInput, pressed>>

\* The pointer goes up: pointerup (canvas-release, canvas-click), mouseup and
\* click, with the handlers in the order the browser calls them; ok1 and ok2
\* are the answers to confirm().
Release(pt, ok1, ok2) ==
  /\ pressed # <<>>
  /\ released' = <<[target |-> pressed[1].target, from |-> pressed[1].at, to |-> pt]>>
  /\ pressed' = <<>>
  /\ LET target == pressed[1].target
         clicked == Target(pt) = target
     IN  IF useImageFallback
         THEN LET c1 == IF fbDrawStart # <<>> THEN handleGlobalMouseUp(fbDrawStart[1], pt) ELSE <<>>
                  c2 == IF fbResizing # <<>> THEN handleUp(fbResizing[1]) ELSE <<>>
                  c3 == IF clicked /\ target = "delete" /\ ok2
                        THEN <<DeleteCall(OverlayUnder(pt).id)>> ELSE <<>>
              IN  /\ SetRefs([onUp(Refs) EXCEPT !.calls = c1 \o c2 \o c3])
                  /\ fbDrawStart' = <<>>
                  /\ fbResizing' = <<>>
                  /\ showCommentInput' =
                       IF clicked /\ target = "canvas" /\ ~redactionMode /\ commentMode
                       THEN TRUE ELSE showCommentInput
         ELSE LET r1 == IF pressed[1].canvas
                        THEN canvasClickDelete(
                               canvasClickComment(canvasReleaseDraw(canvasReleaseClear(Refs), pt)),
                               pt, ok1)
                        ELSE Refs
                  r2 == onUp(r1)
              IN  /\ SetRefs(IF clicked /\ target = "delete" THEN onClickCapture(r2, pt, ok2) ELSE r2)
                  /\ UNCHANGED <<fbDrawStart, fbResizing, showCommentInput>>
  /\ UNCHANGED propVars

gestureVars == <<isDrawingRef, drawStartRef, draggingRef, resizingRef, pendingUpdateRef,
                 showOsdCommentInput, fbDrawStart, fbResizing, showCommentInput>>

\* The page renders the viewer in mode m. The deep-zoom effect depends on the
\* mode props: it destroys the viewer and builds a new one, whose handlers
\* close over the props of this render; the refs live on. With the fallback
\* shown the effect finds no container and returns.
RenderMode(m) ==
  /\ redactionMode' = ModeProps(m).redactionMode
  /\ commentMode' = ModeProps(m).commentMode
  /\ calls' = <<>>
  /\ released' = <<>>
  /\ IF useImageFallback
     THEN UNCHANGED <<capturedRedactions, panEnabled, mouseNavEnabled,
                      suppressCanvasInteractionsRef, pressed>>
     ELSE /\ capturedRedactions' = redactions
          /\ panEnabled' = ~ModeProps(m).redactionMode
          /\ mouseNavEnabled' = TRUE
          /\ suppressCanvasInteractionsRef' =
               IF ModeProps(m).redactionMode THEN FALSE ELSE suppressCanvasInteractionsRef
          /\ pressed' = IF pressed = <<>> THEN <<>>
                        ELSE <<[pressed[1] EXCEPT !.canvas = FALSE]>>
  /\ UNCHANGED <<redactions, useImageFallback, gestureVars>>

\* The user picks another mode with the mode buttons.
SetViewerMode(m) ==
  /\ pressed = <<>>
  /\ ModeProps(m) # [redactionMode |-> redactionMode, commentMode |-> commentMode]
  /\ RenderMode(m)

\* The gateway's denial of the redaction lock arrives: the page goes back to
\* view mode, whatever the pointer is doing.
LockDenied ==
  /\ redactionMode
  /\ RenderMode("view")

\* The page's list of redactions changes (a created redaction comes back from
\* the server, a deleted one goes away); the overlays are drawn again.
SetRedactions(rs) ==
  /\ pressed = <<>>
  /\ rs # redactions
  /\ redactions' = rs
  /\ calls' = <<>>
  /\ released' = <<>>
  /\ UNCHANGED <<redactionMode, commentMode, useImageFallback, capturedRedactions,
                 panEnabled, mouseNavEnabled, suppressCanvasInteractionsRef, pressed,
                 gestureVars>>

\* The deep-zoom viewer fails to open the page (open-failed, or nothing loaded
\* after 3 s): the fallback renderer takes over.
OpenFailed ==
  /\ pressed = <<>>
  /\ ~useImageFallback
  /\ useImageFallback' = TRUE
  /\ calls' = <<>>
  /\ released' = <<>>
  /\ UNCHANGED <<redactionMode, commentMode, redactions, capturedRedactions,
                 panEnabled, mouseNavEnabled, suppressCanvasInteractionsRef, pressed,
                 gestureVars>>

\* The user submits or cancels the comment input.
CloseCommentInput ==
  /\ pressed = <<>>
  /\ showOsdCommentInput \/ showCommentInput
  /\ showOsdCommentInput' = FALSE
  /\ showCommentInput' = FALSE
  /\ calls' = <<>>
  /\ released' = <<>>
  /\ UNCHANGED <<propVars, mouseNavEnabled, isDrawingRef, drawStartRef,
                 suppressCanvasInteractionsRef, draggingRef, resizingRef, pendingUpdateRef,
                 fbDrawStart, fbResizing, pressed>>

NextViewer ==
  \/ \E pt \in Points : Press(pt) /\ UNCHANGED <<lockVars, authVars, jobVars, extVars>>
  \/ \E pt \in Points : Move(pt) /\ UNCHANGED <<lockVars, authVars, jobVars, extVars>>
  \/ \E pt \in Points, ok1, ok2 \in BOOLEAN : Release(pt, ok1, ok2) /\ UNCHANGED <<lockVars, authVars, jobVars, extVars>>
  \/ \E m \in Modes : SetViewerMode(m) /\ UNCHANGED <<lockVars, authVars, jobVars, extVars>>
  \/ LockDenied /\ UNCHANGED <<lockVars, authVars, jobVars, extVars>>
  \/ \E rs \in SUBSET Redactions : SetRedactions(rs) /\ UNCHANGED <<lockVars, authVars, jobVars, extVars>>
  \/ OpenFailed /\ UNCHANGED <<lockVars, authVars, jobVars, extVars>>
  \/ CloseCommentInput /\ UNCHANGED <<lockVars, authVars, jobVars, extVars>>

SpecViewer == Init /\ [][NextViewer]_vars

\* ------------------------------------------------------------------ room
\* Events of the document room.
RoomState(cs, rs) == [type |-> "document_state", comments |-> cs, redactions |-> rs, id |-> 0]
RoomEvent(t, id) == [type |-> t, comments |-> <<>>, redactions |-> <<>>, id |-> id]

\* The snapshot the gateway sends on join: all comments and redactions of
\* the document.
Snapshot == RoomState(restComments, restRedactions)

\* The list without the item `id` (filter by String(id)).
Without(list, id) == SelectSeq(list, LAMBDA x : x # id)

\* Every page in the room has space for one more event.
RoomCanSend == \A c \in Clients : inRoom[c] => Len(inbox[c]) < MaxQueue

\* The gateway sends an event to every page in the room.
Broadcast(ev) == inbox' = [c \in Clients |-> IF inRoom[c] THEN Append(inbox[c], ev) ELSE inbox[c]]

\* s.on('connect'): the page emits join_document; the gateway puts the
\* connection into the room and sends it the snapshot.
JoinRoom(c) ==
  /\ ~inRoom[c]
  /\ inRoom' = [inRoom EXCEPT ![c] = TRUE]
  /\ inbox' = [inbox EXCEPT ![c] = <<Snapshot>>]
  /\ UNCHANGED <<restComments, restRedactions, usedComments, usedRedactions,
                 liveComments, liveRedactions>>

\* The connection drops: the gateway takes it out of the room and what was
\* on its way is lost; the page keeps its lists and will reconnect.
DropFromRoom(c) ==
  /\ inRoom[c]
  /\ inRoom' = [inRoom EXCEPT ![c] = FALSE]
  /\ inbox' = [inbox EXCEPT ![c] = <<>>]
  /\ UNCHANGED <<restComments, restRedactions, usedComments, usedRedactions,
                 liveComments, liveRedactions>>

\* A comment is created through the REST API and announced to the room.
PostComment ==
  /\ usedComments < MaxItems
  /\ RoomCanSend
  /\ usedComments' = usedComments + 1
  /\ restComments' = Append(restComments, usedComments + 1)
  /\ Broadcast(RoomEvent("comment_added", usedComments + 1))
  /\ UNCHANGED <<restRedactions, usedRedactions, inRoom, liveComments, liveRedactions>>

\* A comment is deleted through the REST API and the room is told.
DeleteComment(id) ==
  /\ \E i \in DOMAIN restComments : restComments[i] = id
  /\ RoomCanSend
  /\ restComments' = Without(restComments, id)
  /\ Broadcast(RoomEvent("comment_deleted", id))
  /\ UNCHANGED <<restRedactions, usedComments, usedRedactions, inRoom, liveComments, liveRedactions>>

\* A redaction is created through the REST API and announced to the room.
PostRedaction ==
  /\ usedRedactions < MaxItems
  /\ RoomCanSend
  /\ usedRedactions' = usedRedactions + 1
  /\ restRedactions' = Append(restRedactions, usedRedactions + 1)
  /\ Broadcast(RoomEvent("redaction_added", usedRedactions + 1))
  /\ UNCHANGED <<restComments, usedComments, inRoom, liveComments, liveRedactions>>

\* A redaction is deleted through the REST API and the room is told.
DeleteRedaction(id) ==
  /\ \E i \in DOMAIN restRedactions : restRedactions[i] = id
  /\ RoomCanSend
  /\ restRedactions' = Without(restRedactions, id)
  /\ Broadcast(RoomEvent("redaction_deleted", id))
  /\ UNCHANGED <<restComments, usedComments, usedRedactions, inRoom, liveComments, liveRedactions>>

\* Handlers whose document_state only fills lists that are still empty.
OnRoomEventKeepsStale(c, ev) ==
  /\ liveComments' = [liveComments EXCEPT ![c] =
       IF ev.type = "document_state" /\ @ = <<>> THEN ev.comments ELSE @]
  /\ liveRedactions' = [liveRedactions EXCEPT ![c] =
       IF ev.type = "document_state" /\ @ = <<>> THEN ev.redactions ELSE @]

\* The page's handlers of the room's events: document_state replaces both
\* lists, *_added appends the item, *_deleted filters it out (an event
\* without an id is ignored).
OnRoomEvent(c, ev) ==
  /\ liveComments' = [liveComments EXCEPT ![c] =
       IF ev.type = "document_state" THEN ev.comments
       ELSE IF ev.type = "comment_added" THEN Append(@, ev.id)
       ELSE IF ev.type = "comment_deleted" /\ ev.id # 0 THEN Without(@, ev.id)
       ELSE @]
  /\ liveRedactions' = [liveRedactions EXCEPT ![c] =
       IF ev.type = "document_state" THEN ev.redactions
       ELSE IF ev.type = "redaction_added" THEN Append(@, ev.id)
       ELSE IF ev.type = "redaction_deleted" /\ ev.id # 0 THEN Without(@, ev.id)
       ELSE @]

\* The page's socket delivers the oldest event.
RecvRoomEvent(c) ==
  /\ inbox[c] # <<>>
  /\ OnRoomEvent(c, Head(inbox[c]))
  /\ inbox' = [inbox EXCEPT ![c] = Tail(@)]
  /\ UNCHANGED <<restComments, restRedactions, usedComments, usedRedactions, inRoom>>

NextRoom ==
  \/ \E c \in Clients : JoinRoom(c) /\ UNCHANGED exceptRoomVars
  \/ \E c \in Clients : DropFromRoom(c) /\ UNCHANGED exceptRoomVars
  \/ PostComment /\ UNCHANGED exceptRoomVars
  \/ \E id \in ItemIds : DeleteComment(id) /\ UNCHANGED exceptRoomVars
  \/ PostRedaction /\ UNCHANGED exceptRoomVars
  \/ \E id \in ItemIds : DeleteRedaction(id) /\ UNCHANGED exceptRoomVars
  \/ \E c \in Clients : RecvRoomEvent(c) /\ UNCHANGED exceptRoomVars

SpecRoom == Init /\ [][NextRoom]_vars

\* ------------------------------------------------------------------ API keys
\* The entries of a response body that belong to key id.
KeyInfo(id) == {[key |-> id, field |-> f] : f \in KeyInfoFields}

\* POST /auth/admin/api-keys answers {api_key, key_info}.
CreateApiKeyResponse(id) == {[key |-> id, field |-> "api_key"]} \cup KeyInfo(id)

\* GET /auth/admin/api-keys answers the information of every key.
ListApiKeysResponse == UNION {KeyInfo(id) : id \in keyStore}

\* The keys whose secret a body carries.
SecretsIn(body) == {e.key : e \in {x \in body : x.field = "api_key"}}

\* The response is counted for every key whose secret it carries.
Disclose(body) ==
  disclosed' = [id \in KeyIds |-> IF id \in SecretsIn(body) THEN disclosed[id] + 1 ELSE disclosed[id]]

\* createApiKeyMutation: the key is created; onSuccess shows the secret of
\* the response and invalidates the list query.
createApiKey ==
  /\ Cardinality(keyStore) < MaxKeys
  /\ LET id == Cardinality(keyStore) + 1
         body == CreateApiKeyResponse(id)
     IN  /\ keyStore' = keyStore \cup {id}
         /\ keyResponse' = body
         /\ Disclose(body)
         /\ newApiKey' = IF id \in SecretsIn(body) THEN id ELSE NoKey
  /\ UNCHANGED <<revokedKeys, apiKeys>>

\* The ['admin-api-keys'] query is fetched (on mount and after invalidation).
listApiKeys ==
  /\ keyResponse' = ListApiKeysResponse
  /\ apiKeys' = ListApiKeysResponse
  /\ Disclose(ListApiKeysResponse)
  /\ UNCHANGED <<keyStore, revokedKeys, newApiKey>>

\* revokeApiKeyMutation: the key is revoked; the list query is invalidated.
revokeApiKey(id) ==
  /\ id \in keyStore \ revokedKeys
  /\ revokedKeys' = revokedKeys \cup {id}
  /\ keyResponse' = {}
  /\ UNCHANGED <<keyStore, newApiKey, apiKeys, disclosed>>

\* The user closes the panel that shows the new key: setNewApiKey(null).
DismissNewApiKey ==
  /\ newApiKey # NoKey
  /\ newApiKey' = NoKey
  /\ keyResponse' = {}
  /\ UNCHANGED <<keyStore, revokedKeys, apiKeys, disclosed>>

\* The console is left and opened again: its state starts afresh.
ReopenConsole ==
  /\ newApiKey' = NoKey
  /\ apiKeys' = {}
  /\ keyResponse' = {}
  /\ UNCHANGED <<keyStore, revokedKeys, disclosed>>

NextKeys ==
  \/ createApiKey /\ UNCHANGED exceptKeyVars
  \/ listApiKeys /\ UNCHANGED exceptKeyVars
  \/ \E id \in KeyIds : revokeApiKey(id) /\ UNCHANGED exceptKeyVars
  \/ DismissNewApiKey /\ UNCHANGED exceptKeyVars
  \/ ReopenConsole /\ UNCHANGED exceptKeyVars

SpecKeys == Init /\ [][NextKeys]_vars

\* ------------------------------------------------------------------ sharing
\* String.prototype.trim on the values that can be typed.
Trim(s) ==
  CASE s = " " -> ""
    [] s = " a@x.org" -> "a@x.org"
    [] OTHER -> s

\* The share button is always enabled.
ShareDisabledNever == FALSE

\* disabled={!shareEveryone && !shareEmail.trim()}
ShareDisabled == ~shareEveryone /\ Trim(shareEmail) = ""

\* The body handleCreateShare posts; a key whose value is undefined is not
\* serialised.
shareData ==
  IF shareEveryone
    THEN [permission_level |-> sharePermission, is_everyone |-> TRUE]
    ELSE [shared_with_email |-> shareEmail, permission_level |-> sharePermission,
          is_everyone |-> FALSE]

\* The bodies the sharing test posts: "everyone" without an email, and an
\* email without the is_everyone key.
ScriptBodies ==
  {[permission_level |-> "view", is_everyone |-> TRUE],
   [permission_level |-> "edit", shared_with_email |-> "test@example.com"]}

\* The grant the service stores for a body: a missing email is null, a
\* missing is_everyone is false.
ShareRow(body) ==
  [id |-> Len(shares) + 1,
   shared_with_email |->
     IF "shared_with_email" \in DOMAIN body THEN body.shared_with_email ELSE NoEmail,
   permission_level |-> body.permission_level,
   is_everyone |-> IF "is_everyone" \in DOMAIN body THEN body.is_everyone ELSE FALSE]

RemoveAt(s, i) == SubSeq(s, 1, i - 1) \o SubSeq(s, i + 1, Len(s))

\* The email input is rendered only while "everyone" is unchecked.
setShareEmail(v) ==
  /\ ~shareEveryone
  /\ v # shareEmail
  /\ shareEmail' = v
  /\ UNCHANGED <<sharePermission, shareEveryone, shareCalls, shares>>

setShareEveryone(b) ==
  /\ b # shareEveryone
  /\ shareEveryone' = b
  /\ UNCHANGED <<shareEmail, sharePermission, shareCalls, shares>>

setSharePermission(p) ==
  /\ p # sharePermission
  /\ sharePermission' = p
  /\ UNCHANGED <<shareEmail, shareEveryone, shareCalls, shares>>

\* Click on the share button: the request is sent.
handleCreateShare ==
  /\ ~ShareDisabled
  /\ Len(shareCalls) < MaxShareCalls
  /\ shareCalls' = Append(shareCalls, [body |-> shareData, form |-> TRUE])
  /\ UNCHANGED <<shareEmail, sharePermission, shareEveryone, shares>>

\* The sharing test posts one of its bodies.
ScriptShare(body) ==
  /\ Len(shareCalls) < MaxShareCalls
  /\ shareCalls' = Append(shareCalls, [body |-> body, form |-> FALSE])
  /\ UNCHANGED <<shareEmail, sharePermission, shareEveryone, shares>>

\* The service stores the grant and answers; the form that sent the request
\* is reset.
shareDocumentResolves(i) ==
  /\ i \in DOMAIN shareCalls
  /\ Len(shares) < MaxShares
  /\ shares' = Append(shares, ShareRow(shareCalls[i].body))
  /\ shareCalls' = RemoveAt(shareCalls, i)
  /\ IF shareCalls[i].form
       THEN shareEmail' = "" /\ shareEveryone' = FALSE
       ELSE UNCHANGED <<shareEmail, shareEveryone>>
  /\ UNCHANGED sharePermission

\* The request fails: an error toast, the form keeps its values.
shareDocumentRejects(i) ==
  /\ i \in DOMAIN shareCalls
  /\ shareCalls' = RemoveAt(shareCalls, i)
  /\ UNCHANGED <<shareEmail, sharePermission, shareEveryone, shares>>

NextShares ==
  \/ \E v \in TypedEmails : setShareEmail(v) /\ UNCHANGED exceptShareVars
  \/ \E b \in BOOLEAN : setShareEveryone(b) /\ UNCHANGED exceptShareVars
  \/ \E p \in PermissionLevels : setSharePermission(p) /\ UNCHANGED exceptShareVars
  \/ handleCreateShare /\ UNCHANGED exceptShareVars
  \/ \E body \in ScriptBodies : ScriptShare(body) /\ UNCHANGED exceptShareVars
  \/ \E i \in 1..MaxShareCalls : shareDocumentResolves(i) /\ UNCHANGED exceptShareVars
  \/ \E i \in 1..MaxShareCalls : shareDocumentRejects(i) /\ UNCHANGED exceptShareVars

SpecShares == Init /\ [][NextShares]_vars

\* ------------------------------------------------------------------ MFA enrolment
isLoading == mfaCall # NoMfaCall

\* The code an authenticator shows for a secret: CodeLen digits.
TotpCode(s, t) == [i \in 1..CodeLen |-> Totp(s, t)[1]]

\* What can be typed into the code field: nothing, a short code, the codes of
\* the authenticator, a code with a letter in it, a code that is too long.
RawCodes ==
  {<<>>, <<0, 0, 0>>, <<NonDigit>> \o TotpCode(0, 1), TotpCode(0, 0) \o <<1>>}
    \cup {TotpCode(0, d) : d \in Digits}

IsDigit(ch) == ch \in 0..9

\* e.target.value.replace(/\D/g, '').slice(0, 6)
SanitizeCode(raw) ==
  LET digits == SelectSeq(raw, IsDigit)
  IN  SubSeq(digits, 1, IF Len(digits) < CodeLen THEN Len(digits) ELSE CodeLen)

\* The service takes any code for the right one.
CodeAcceptedAlways(code) == TRUE

\* POST /auth/mfa/enable accepts the code of the secret issued last.
CodeAccepted(code) ==
  mfaState = "mfa_setup_pending" /\ code = TotpCode(mfaSecret, now)

setVerificationCode(raw) ==
  /\ step = "verify"
  /\ SanitizeCode(raw) # verificationCode
  /\ verificationCode' = SanitizeCode(raw)
  /\ UNCHANGED <<step, secret, mfaCall, mfaState, mfaSecret, secretsIssued>>

\* Click on "Setup MFA": POST /auth/mfa/setup is sent.
handleSetupMfa ==
  /\ step = "setup"
  /\ ~isLoading
  /\ mfaCall' = [op |-> "setup", code |-> <<>>]
  /\ UNCHANGED <<step, secret, verificationCode, mfaState, mfaSecret, secretsIssued>>

\* The service issues a secret for an account that has MFA not enabled; the
\* component shows it and moves to the verify step.
SetupMfaResolves ==
  /\ mfaCall.op = "setup"
  /\ mfaState # "mfa_enabled"
  /\ secretsIssued < MaxSecrets
  /\ secretsIssued' = secretsIssued + 1
  /\ mfaSecret' = secretsIssued + 1
  /\ mfaState' = "mfa_setup_pending"
  /\ secret' = secretsIssued + 1
  /\ step' = "verify"
  /\ mfaCall' = NoMfaCall
  /\ UNCHANGED verificationCode

\* The setup request fails: an error toast.
SetupMfaRejects ==
  /\ mfaCall.op = "setup"
  /\ mfaCall' = NoMfaCall
  /\ UNCHANGED <<step, secret, verificationCode, mfaState, mfaSecret, secretsIssued>>

\* Click on "Enable MFA": POST /auth/mfa/enable is sent with the code.
handleVerifyAndEnable ==
  /\ step = "verify"
  /\ ~isLoading
  /\ Len(verificationCode) = CodeLen
  /\ mfaCall' = [op |-> "enable", code |-> verificationCode]
  /\ UNCHANGED <<step, secret, verificationCode, mfaState, mfaSecret, secretsIssued>>

\* The service answers the enable request: MFA is enabled when the code is
\* accepted, otherwise the request fails with an error toast.
EnableMfaAnswers ==
  /\ mfaCall.op = "enable"
  /\ mfaState' = IF CodeAccepted(mfaCall.code) THEN "mfa_enabled" ELSE mfaState
  /\ mfaCall' = NoMfaCall
  /\ UNCHANGED <<step, secret, verificationCode, mfaSecret, secretsIssued>>

\* The "Back" button of the verify step.
BackToSetup ==
  /\ step = "verify"
  /\ step' = "setup"
  /\ UNCHANGED <<secret, verificationCode, mfaCall, mfaState, mfaSecret, secretsIssued>>

\* The user turns MFA off.
DisableMfa ==
  /\ mfaState = "mfa_enabled"
  /\ mfaState' = "mfa_disabled"
  /\ mfaSecret' = NoSecret
  /\ UNCHANGED <<step, secret, verificationCode, mfaCall, secretsIssued>>

NextMfa ==
  \/ \E raw \in RawCodes : setVerificationCode(raw) /\ UNCHANGED exceptMfaVars
  \/ handleSetupMfa /\ UNCHANGED exceptMfaVars
  \/ SetupMfaResolves /\ UNCHANGED exceptMfaVars
  \/ SetupMfaRejects /\ UNCHANGED exceptMfaVars
  \/ handleVerifyAndEnable /\ UNCHANGED exceptMfaVars
  \/ EnableMfaAnswers /\ UNCHANGED exceptMfaVars
  \/ BackToSetup /\ UNCHANGED exceptMfaVars
  \/ DisableMfa /\ UNCHANGED exceptMfaVars
  \/ Tick /\ UNCHANGED <<lockVars, jobVars, viewerVars, extVars>>

SpecMfa == Init /\ [][NextMfa]_vars

\* ------------------------------------------------------------------ deletes
\* The service's list of a kind.
Rest(k) == IF k = "redactions" THEN restRedactions ELSE restComments

Has(list, id) == \E i \in DOMAIN list : list[i] = id

\* Only the redaction delete removes the item from the cached list before
\* the request is sent, and only it refetches after a failure.
Optimistic(k) == k = "redactions"

\* No answer is taken for "already deleted".
AlreadyDeletedNever(answer) == FALSE

\* error?.response?.status === 404
AlreadyDeleted(answer) == answer = "404"

\* Click on an item's delete button (handleDeleteRedaction, or the comment's
\* onClick): the item is marked as being deleted and the request is sent.
ClickDelete(k, id) ==
  /\ Has(cached[k], id)
  /\ id \notin deleting[k]
  /\ deleting' = [deleting EXCEPT ![k] = @ \cup {id}]
  /\ cached' = [cached EXCEPT ![k] = IF Optimistic(k) THEN Without(@, id) ELSE @]
  /\ deletion' = [deletion EXCEPT ![k][id] = NoAnswer]
  /\ UNCHANGED <<stale, roomVars>>

\* The service answers the delete request (it deletes the item when it has
\* it and does not fail) and the page handles the answer.
DeleteSettles(k, id, answer) ==
  /\ id \in deleting[k]
  /\ answer = "ok" => Has(Rest(k), id)
  /\ answer = "404" => ~Has(Rest(k), id)
  /\ restRedactions' = IF k = "redactions" /\ answer = "ok"
                         THEN Without(restRedactions, id) ELSE restRedactions
  /\ restComments' = IF k = "comments" /\ answer = "ok"
                       THEN Without(restComments, id) ELSE restComments
  /\ IF answer = "ok" \/ AlreadyDeleted(answer)
       THEN /\ stale' = [stale EXCEPT ![k] = TRUE]
            /\ deletion' = [deletion EXCEPT ![k][id] = [answer |-> answer, toast |-> "success"]]
       ELSE /\ stale' = [stale EXCEPT ![k] = Optimistic(k) \/ @]
            /\ deletion' = [deletion EXCEPT ![k][id] = [answer |-> answer, toast |-> "error"]]
  /\ deleting' = [deleting EXCEPT ![k] = @ \ {id}]
  /\ UNCHANGED <<cached, usedComments, usedRedactions, inRoom, inbox, liveComments, liveRedactions>>

\* The refetch of an invalidated query arrives.
Refetch(k) ==
  /\ stale[k]
  /\ cached' = [cached EXCEPT ![k] = Rest(k)]
  /\ stale' = [stale EXCEPT ![k] = FALSE]
  /\ UNCHANGED <<deleting, deletion, roomVars>>

\* The query is invalidated by one of the page's other handlers.
InvalidateQueries(k) ==
  /\ ~stale[k]
  /\ stale' = [stale EXCEPT ![k] = TRUE]
  /\ UNCHANGED <<cached, deleting, deletion, roomVars>>

NextDeletes ==
  \/ \E k \in Kinds, id \in ItemIds : ClickDelete(k, id) /\ UNCHANGED exceptRoomDeleteVars
  \/ \E k \in Kinds, id \in ItemIds, answer \in {"ok", "404", "failed"} :
       DeleteSettles(k, id, answer) /\ UNCHANGED exceptRoomDeleteVars
  \/ \E k \in Kinds : Refetch(k) /\ UNCHANGED exceptRoomDeleteVars
  \/ \E k \in Kinds : InvalidateQueries(k) /\ UNCHANGED exceptRoomDeleteVars
  \/ PostComment /\ UNCHANGED exceptRoomVars
  \/ \E id \in ItemIds : DeleteComment(id) /\ UNCHANGED exceptRoomVars
  \/ PostRedaction /\ UNCHANGED exceptRoomVars
  \/ \E id \in ItemIds : DeleteRedaction(id) /\ UNCHANGED exceptRoomVars

SpecDeletes == Init /\ [][NextDeletes]_vars

\* ------------------------------------------------------------------ navigation
\* The role of an account at the authentication service: alice administers,
\* bob is a viewer.
AccountRole(e) == IF e = "alice" THEN "admin" ELSE "viewer"

\* The role useAuthStore.login writes into the stored user.
LoginRole == "admin"

\* user?.role of the stored user.
StoreRole == IF user = NoUser THEN "undefined" ELSE LoginRole

\* The hrefs of the navigation bar.
NavigationHrefs ==
  {"/dashboard", "/documents"} \cup (IF StoreRole = "admin" THEN {"/admin"} ELSE {})

\* The /admin route is part of the signed-in routes.
AdminRoute == StoreRole \in AdminRoles

\* The location App's routes lead to from path p: signed out everything
\* redirects to /login, signed in every path without a route redirects to
\* /dashboard.
Resolve(p) ==
  IF ~isAuthenticated THEN "/login"
  ELSE IF p \in {"/dashboard", "/documents"} THEN p
  ELSE IF p = "/admin" /\ AdminRoute THEN p
  ELSE "/dashboard"

\* Click on an entry of the navigation bar.
navigate(href) ==
  /\ isAuthenticated
  /\ href \in NavigationHrefs
  /\ pathname # Resolve(href)
  /\ pathname' = Resolve(href)

\* The user opens a path through the address bar.
EnterUrl(p) ==
  /\ pathname # Resolve(p)
  /\ pathname' = Resolve(p)

\* The routes are rendered again after the session changed.
Redirect ==
  /\ pathname # Resolve(pathname)
  /\ pathname' = Resolve(pathname)

NextNav ==
  \/ \E href \in Paths : navigate(href) /\ UNCHANGED exceptNavVars
  \/ \E p \in Paths : EnterUrl(p) /\ UNCHANGED exceptNavVars
  \/ Redirect /\ UNCHANGED exceptNavVars
  \/ \E e \in Emails, pw \in Passwords, code \in MfaCodes : onSubmit(e, pw, code) /\ UNCHANGED <<lockVars, jobVars, viewerVars, extVars>>
  \/ logout /\ UNCHANGED <<lockVars, jobVars, viewerVars, extVars>>

SpecNav == Init /\ [][NextNav]_vars

\* ------------------------------------------------------------------ HTTP API
\* Routes that need no credentials.
OpenRoutes ==
  {"GET /health", "GET /docs", "GET /openapi.json", "POST /auth/login", "POST /auth/register"}

\* Routes the feature test expects to answer 401 without credentials.
GuardedRoutes ==
  {"GET /auth/admin/users", "GET /auth/admin/api-keys",
   "GET /documents/{id}/access", "GET /documents/{id}/shares"}

\* Routes the feature test uses, and expects to succeed, without credentials.
AnonymousRoutes ==
  {"GET /documents/", "POST /documents/", "DELETE /documents/", "GET /search/",
   "GET /documents/{id}", "DELETE /documents/{id}", "GET /documents/{id}/jobs",
   "GET /documents/{id}/comments", "GET /documents/{id}/redactions",
   "GET /documents/{id}/thumbnail/{page}", "GET /documents/{id}/tiles/page_{n}/",
   "GET /documents/{id}/download", "GET /documents/{id}/exports"}

ApiRoutes == OpenRoutes \cup GuardedRoutes \cup AnonymousRoutes

\* Routes about one document.
DocRoutes ==
  {"GET /documents/{id}/access", "GET /documents/{id}/shares",
   "GET /documents/{id}", "DELETE /documents/{id}", "GET /documents/{id}/jobs",
   "GET /documents/{id}/comments", "GET /documents/{id}/redactions",
   "GET /documents/{id}/thumbnail/{page}", "GET /documents/{id}/tiles/page_{n}/",
   "GET /documents/{id}/download", "GET /documents/{id}/exports"}

\* The routes on which the service asks for credentials.
RequiresAuth(route) == route \in GuardedRoutes

\* The status of a request: 401 where credentials are asked for and missing;
\* the login request of the test has an empty body and answers 422.
ApiStatus(route, cred) ==
  IF RequiresAuth(route) /\ cred # "bearer" THEN 401
  ELSE IF route = "POST /auth/login" THEN 422
  ELSE 200

\* The service handles a request; a request that is not refused acts.
ApiRequest(route, d, cred) ==
  /\ (route \in DocRoutes) <=> (d \in apiDocs)
  /\ route \notin DocRoutes => d = NoApiDoc
  /\ route = "POST /documents/" => apiCreated < MaxApiDocs
  /\ LET status == ApiStatus(route, cred) IN
       /\ apiLast' = [route |-> route, doc |-> d, cred |-> cred, status |-> status]
       /\ IF status = 200 /\ route = "POST /documents/"
            THEN apiDocs' = apiDocs \cup {apiCreated + 1} /\ apiCreated' = apiCreated + 1
          ELSE IF status = 200 /\ route = "DELETE /documents/{id}"
            THEN apiDocs' = apiDocs \ {d} /\ UNCHANGED apiCreated
          ELSE IF status = 200 /\ route = "DELETE /documents/"
            THEN apiDocs' = {} /\ UNCHANGED apiCreated
          ELSE UNCHANGED <<apiDocs, apiCreated>>

NextApi ==
  \E route \in ApiRoutes, d \in ApiDocIds \cup {NoApiDoc}, cred \in Credentials :
    ApiRequest(route, d, cred) /\ UNCHANGED exceptApiVars

SpecApi == Init /\ [][NextApi]_vars

\* ------------------------------------------------------------------ renderer choice
\* osdViewer.world.getItemCount()
ItemCount == IF osd = "opened" THEN 1 ELSE 0

\* An 'open' handler that clears the timer only.
OsdOpensKeepsFallback ==
  /\ osd = "loading"
  /\ osd' = "opened"
  /\ timerArmed' = FALSE
  /\ UNCHANGED <<useImageFallback, attached, pageNumber, elapsed>>

\* The viewer raises 'open': the timer is cleared and the fallback is
\* switched off. When the fallback was shown, the container is mounted anew
\* and the viewer keeps the element that was unmounted.
OsdOpens ==
  /\ osd = "loading"
  /\ osd' = "opened"
  /\ timerArmed' = FALSE
  /\ useImageFallback' = FALSE
  /\ attached' = IF useImageFallback THEN FALSE ELSE attached
  /\ UNCHANGED <<pageNumber, elapsed>>

\* The viewer raises 'open-failed'.
OsdOpenFails ==
  /\ osd = "loading"
  /\ osd' = "failed"
  /\ useImageFallback' = TRUE
  /\ UNCHANGED <<pageNumber, timerArmed, elapsed, attached>>

\* A second passes.
SecondPasses ==
  /\ timerArmed
  /\ elapsed < FallbackDelay
  /\ elapsed' = elapsed + 1
  /\ UNCHANGED <<useImageFallback, pageNumber, osd, timerArmed, attached>>

\* The timer's callback: the fallback is switched on when the viewer has
\* loaded no image.
FallbackTimerFires ==
  /\ timerArmed
  /\ elapsed = FallbackDelay
  /\ timerArmed' = FALSE
  /\ useImageFallback' = IF ItemCount = 0 THEN TRUE ELSE useImageFallback
  /\ UNCHANGED <<pageNumber, osd, elapsed, attached>>

\* The page changes: the effect's cleanup destroys the viewer and clears the
\* timer, and the effect runs again. It creates a viewer when its container
\* is mounted, that is, when the fallback is not shown.
SetPageNumber(p) ==
  /\ p # pageNumber
  /\ pageNumber' = p
  /\ IF useImageFallback
       THEN osd' = "none" /\ timerArmed' = FALSE /\ UNCHANGED <<elapsed, attached>>
       ELSE osd' = "loading" /\ timerArmed' = TRUE /\ elapsed' = 0 /\ attached' = TRUE
  /\ UNCHANGED useImageFallback

NextFallback ==
  \/ OsdOpens /\ UNCHANGED <<viewerOtherVars, exceptViewerFallbackVars>>
  \/ OsdOpenFails /\ UNCHANGED <<viewerOtherVars, exceptViewerFallbackVars>>
  \/ SecondPasses /\ UNCHANGED <<viewerOtherVars, exceptViewerFallbackVars>>
  \/ FallbackTimerFires /\ UNCHANGED <<viewerOtherVars, exceptViewerFallbackVars>>
  \/ \E p \in PageNumbers : SetPageNumber(p) /\ UNCHANGED <<viewerOtherVars, exceptViewerFallbackVars>>

SpecFallback == Init /\ [][NextFallback]_vars

\* ------------------------------------------------------------------ renderer comparison
\* The screen position of a page position in the deep-zoom renderer, whose
\* page is OsdWidth x OsdHeight image pixels at OsdScale image pixels per
\* screen pixel.
OsdScreen(f) ==
  <<(f[1] * OsdWidth) \div (Grid * OsdScale), (f[2] * OsdHeight) \div (Grid * OsdScale)>>

\* The screen position of a page position on the fallback's <img>.
FallbackScreen(f) == <<(f[1] * RectWidth) \div Grid, (f[2] * RectHeight) \div Grid>>

\* In redact mode the user draws from one corner of a region to the other;
\* each renderer's release handler turns the gesture into its create request.
DrawOnBoth(from, to) ==
  /\ redactionMode
  /\ region' = <<from, to>>
  /\ osdCreated' = canvasReleaseDraw(
                     [Refs EXCEPT !.isDrawing = TRUE, !.drawStart = <<OsdScreen(from)>>],
                     OsdScreen(to)).calls
  /\ fbCreated' = handleGlobalMouseUp(FallbackScreen(from), FallbackScreen(to))

NextCompare ==
  \/ \E from \in GridPoints, to \in GridPoints : DrawOnBoth(from, to) /\ UNCHANGED exceptCompareVars
  \/ \E m \in Modes : SetViewerMode(m) /\ UNCHANGED <<lockVars, authVars, jobVars, extVars>>

SpecCompare == Init /\ [][NextCompare]_vars

\* ------------------------------------------------------------------ session
\* persist(partialize): every set of the store writes user, token and
\* isAuthenticated to the storage.
Persist ==
  storage' = [user |-> user', token |-> token', isAuthenticated |-> isAuthenticated']

\* The response interceptor's window.location.href = '/login', for the
\* request of the step.
Intercepted == redirected' = Rejects(lastCall'.url, lastCall'.status)

\* useAuthStore.login when the request gets no response: error.response is
\* undefined, the interceptor passes the error on and the catch branch
\* returns false; onSubmit then changes nothing.
loginNetworkError(e, pw, code) ==
  /\ location = "login"
  /\ lastCall' = Call(IF code = <<>> THEN LoginUrl ELSE VerifyUrl, e, code, 0, "network error")
  /\ UNCHANGED <<storeVars, location, needsMfa, now, serviceVars>>

\* Page load: the store is rehydrated from the storage, the page's state is
\* new and the route guard picks the page.
Reload ==
  /\ SetSession(storage.user, storage.token, storage.isAuthenticated)
  /\ location' = IF storage.isAuthenticated THEN "dashboard" ELSE "login"
  /\ needsMfa' = FALSE
  /\ lastCall' = NoCall
  /\ redirected' = FALSE
  /\ UNCHANGED <<storage, now, serviceVars>>

NextSession ==
  \/ \E e \in Emails, pw \in Passwords, code \in MfaCodes :
       onSubmit(e, pw, code) /\ Persist /\ Intercepted /\ UNCHANGED exceptAuthSessionVars
  \/ \E e \in Emails, pw \in Passwords, code \in MfaCodes :
       loginNetworkError(e, pw, code) /\ Persist /\ Intercepted /\ UNCHANGED exceptAuthSessionVars
  \/ \E e \in Emails : register(e) /\ Persist /\ Intercepted /\ UNCHANGED exceptAuthSessionVars
  \/ logout /\ Persist /\ Intercepted /\ UNCHANGED exceptAuthSessionVars
  \/ \E url \in ProtectedUrls : apiRequest(url) /\ Persist /\ Intercepted /\ UNCHANGED exceptAuthSessionVars
  \/ Tick /\ Persist /\ Intercepted /\ UNCHANGED exceptAuthSessionVars
  \/ Reload /\ UNCHANGED exceptAuthSessionVars

SpecSession == Init /\ [][NextSession]_vars

\* ------------------------------------------------------------------ delete requests
Sent(k, id) == inFlight' = [inFlight EXCEPT ![k][id] = @ + 1]

\* The delete button of the side panel: its onClick is the handler of the
\* current render.
ButtonDelete(k, id) ==
  /\ inFlight[k][id] < MaxInFlight
  /\ ClickDelete(k, id)
  /\ Sent(k, id)
  /\ UNCHANGED <<effectRedactions, effectDeleting>>

\* The deep-zoom viewer's effect runs (mount, page or mode change): its
\* listeners close over the props of this render, onRedactionDelete with the
\* render's deletingRedactions among them.
ViewerEffectRuns ==
  /\ <<effectRedactions, effectDeleting>> # <<cached["redactions"], deleting["redactions"]>>
  /\ effectRedactions' = cached["redactions"]
  /\ effectDeleting' = deleting["redactions"]
  /\ UNCHANGED <<inFlight, deleteVars, roomVars>>

\* canvas-click on the delete hotspot of a redaction, confirmed: the hit test
\* runs on the listener's redactions and handleDeleteRedaction is the one the
\* listener closed over, so its guard reads that render's deletingRedactions.
CanvasClickDelete(id) ==
  /\ Has(effectRedactions, id)
  /\ id \notin effectDeleting
  /\ inFlight["redactions"][id] < MaxInFlight
  /\ deleting' = [deleting EXCEPT !["redactions"] = @ \cup {id}]
  /\ cached' = [cached EXCEPT !["redactions"] = Without(@, id)]
  /\ deletion' = [deletion EXCEPT !["redactions"][id] = NoAnswer]
  /\ Sent("redactions", id)
  /\ UNCHANGED <<stale, roomVars, effectRedactions, effectDeleting>>

\* The answer to a delete request whose id another request's finally block
\* has already taken out of the set: the handler does what it does for any
\* answer.
LateAnswer(k, id, answer) ==
  /\ id \notin deleting[k]
  /\ answer = "ok" => Has(Rest(k), id)
  /\ answer = "404" => ~Has(Rest(k), id)
  /\ restRedactions' = IF k = "redactions" /\ answer = "ok"
                         THEN Without(restRedactions, id) ELSE restRedactions
  /\ restComments' = IF k = "comments" /\ answer = "ok"
                       THEN Without(restComments, id) ELSE restComments
  /\ IF answer = "ok" \/ AlreadyDeleted(answer)
       THEN /\ stale' = [stale EXCEPT ![k] = TRUE]
            /\ deletion' = [deletion EXCEPT ![k][id] = [answer |-> answer, toast |-> "success"]]
       ELSE /\ stale' = [stale EXCEPT ![k] = Optimistic(k) \/ @]
            /\ deletion' = [deletion EXCEPT ![k][id] = [answer |-> answer, toast |-> "error"]]
  /\ UNCHANGED <<cached, deleting, usedComments, usedRedactions, inRoom, inbox, liveComments, liveRedactions>>

\* One of the requests in flight for the item is answered.
AnswerArrives(k, id, answer) ==
  /\ inFlight[k][id] > 0
  /\ inFlight' = [inFlight EXCEPT ![k][id] = @ - 1]
  /\ IF id \in deleting[k] THEN DeleteSettles(k, id, answer) ELSE LateAnswer(k, id, answer)
  /\ UNCHANGED <<effectRedactions, effectDeleting>>

NextRequests ==
  \/ \E k \in Kinds, id \in ItemIds : ButtonDelete(k, id) /\ UNCHANGED exceptRoomDeleteRequestVars
  \/ ViewerEffectRuns /\ UNCHANGED exceptRoomDeleteRequestVars
  \/ \E id \in ItemIds : CanvasClickDelete(id) /\ UNCHANGED exceptRoomDeleteRequestVars
  \/ \E k \in Kinds, id \in ItemIds, answer \in {"ok", "404", "failed"} :
       AnswerArrives(k, id, answer) /\ UNCHANGED exceptRoomDeleteRequestVars
  \/ \E k \in Kinds : Refetch(k) /\ UNCHANGED <<requestVars, exceptRoomDeleteRequestVars>>
  \/ \E k \in Kinds : InvalidateQueries(k) /\ UNCHANGED <<requestVars, exceptRoomDeleteRequestVars>>
  \/ PostComment /\ UNCHANGED <<deleteVars, requestVars, exceptRoomDeleteRequestVars>>
  \/ PostRedaction /\ UNCHANGED <<deleteVars, requestVars, exceptRoomDeleteRequestVars>>

SpecRequests == Init /\ [][NextRequests]_vars

\* ------------------------------------------------------------------ upload
\* uploadMutation.isPending: the mutation hook reports the state of the
\* mutate call made last.
isPending == uploads # <<>> /\ uploads[Len(uploads)].state = "pending"

\* files.filter(f => f.status === 'pending'), as ids in list order.
pendingFiles ==
  LET pending == SelectSeq(files, LAMBDA f : f.status = "pending")
  IN  [i \in DOMAIN pending |-> pending[i].id]

\* setFiles(prev => prev.map(f => f.id === id ? {...f, status} : f))
WithStatus(id, status) ==
  [i \in DOMAIN files |-> IF files[i].id = id THEN [files[i] EXCEPT !.status = status] ELSE files[i]]

\* addFiles, for one dropped or selected file.
addFiles ==
  /\ added < NumFiles
  /\ added' = added + 1
  /\ files' = Append(files, [id |-> added + 1, status |-> "pending"])
  /\ UNCHANGED uploads

\* removeFile: the button is rendered for pending files.
removeFile(id) ==
  /\ \E i \in DOMAIN files : files[i].id = id /\ files[i].status = "pending"
  /\ files' = SelectSeq(files, LAMBDA f : f.id # id)
  /\ UNCHANGED <<added, uploads>>

\* startUpload: the button is rendered while a file is pending and enabled
\* while the hook does not report pending; every pending file is mutated.
startUpload ==
  /\ pendingFiles # <<>>
  /\ ~isPending
  /\ Len(uploads) + Len(pendingFiles) <= MaxUploads
  /\ uploads' = uploads \o [i \in DOMAIN pendingFiles |-> [file |-> pendingFiles[i], state |-> "pending"]]
  /\ UNCHANGED <<files, added>>

\* onUploadProgress of a request in flight.
onUploadProgress(r) ==
  /\ r \in DOMAIN uploads
  /\ uploads[r].state = "pending"
  /\ files' = WithStatus(uploads[r].file, "uploading")
  /\ files' # files
  /\ UNCHANGED <<added, uploads>>

\* onSuccess of a request.
onSuccess(r) ==
  /\ r \in DOMAIN uploads
  /\ uploads[r].state = "pending"
  /\ uploads' = [uploads EXCEPT ![r].state = "success"]
  /\ files' = WithStatus(uploads[r].file, "success")
  /\ UNCHANGED added

\* onError of a request.
onError(r) ==
  /\ r \in DOMAIN uploads
  /\ uploads[r].state = "pending"
  /\ uploads' = [uploads EXCEPT ![r].state = "error"]
  /\ files' = WithStatus(uploads[r].file, "error")
  /\ UNCHANGED added

\* clearCompleted: enabled while a file has succeeded.
clearCompleted ==
  /\ \E i \in DOMAIN files : files[i].status = "success"
  /\ files' = SelectSeq(files, LAMBDA f : f.status # "success")
  /\ UNCHANGED <<added, uploads>>

NextUpload ==
  \/ addFiles /\ UNCHANGED exceptUploadVars
  \/ \E id \in FileIds : removeFile(id) /\ UNCHANGED exceptUploadVars
  \/ startUpload /\ UNCHANGED exceptUploadVars
  \/ \E r \in 1..MaxUploads : onUploadProgress(r) /\ UNCHANGED exceptUploadVars
  \/ \E r \in 1..MaxUploads : onSuccess(r) /\ UNCHANGED exceptUploadVars
  \/ \E r \in 1..MaxUploads : onError(r) /\ UNCHANGED exceptUploadVars
  \/ clearCompleted /\ UNCHANGED exceptUploadVars

SpecUpload == Init /\ [][NextUpload]_vars

\* ------------------------------------------------------------------ ask
\* The ask operation: the model's text for the question (which may be empty),
\* or the soft-failure answer when the model is unreachable or fails; always
\* an HTTP success.
AskAnswers(q) ==
  IF llm = "up"
    THEN {[llm |-> "up", status |-> 200, answer |-> a] : a \in {"answer to " \o q, ""}}
    ELSE {[llm |-> "down", status |-> 200, answer |-> UnableAnswer]}

\* The answer shown as it came.
ShownRaw(answer) == answer

\* response.data.answer || 'No answer available'
Shown(answer) == IF answer = "" THEN NoAnswerAvailable ELSE answer

\* onChange of the question input, which is disabled while loading.
setAiQuestion(v) ==
  /\ ~isLoadingAI
  /\ v # aiQuestion
  /\ aiQuestion' = v
  /\ UNCHANGED <<aiAnswer, isLoadingAI, aiToast, askCall, llm, askResponse>>

\* handleAIQuestion up to its await (button, or Enter in the input).
handleAIQuestion ==
  /\ ~isLoadingAI
  /\ Trim(aiQuestion) # ""
  /\ isLoadingAI' = TRUE
  /\ askCall' = aiQuestion
  /\ UNCHANGED <<aiQuestion, aiAnswer, aiToast, llm, askResponse>>

\* The request is answered: try branch, then finally.
AskResolves ==
  /\ askCall # NoAsk
  /\ \E resp \in AskAnswers(askCall) :
       /\ askResponse' = resp
       /\ aiAnswer' = Shown(resp.answer)
  /\ aiToast' = "success"
  /\ isLoadingAI' = FALSE
  /\ askCall' = NoAsk
  /\ UNCHANGED <<aiQuestion, llm>>

\* The request fails (no response, or an error status): catch branch, then
\* finally.
AskRejects ==
  /\ askCall # NoAsk
  /\ aiAnswer' = SorryText
  /\ aiToast' = "error"
  /\ isLoadingAI' = FALSE
  /\ askCall' = NoAsk
  /\ UNCHANGED <<aiQuestion, llm, askResponse>>

\* The language model becomes unreachable, or reachable again.
LlmChanges ==
  /\ llm' = IF llm = "up" THEN "down" ELSE "up"
  /\ UNCHANGED <<aiQuestion, aiAnswer, isLoadingAI, aiToast, askCall, askResponse>>

NextAsk ==
  \/ \E v \in TypedQuestions : setAiQuestion(v) /\ UNCHANGED exceptAskVars
  \/ handleAIQuestion /\ UNCHANGED exceptAskVars
  \/ AskResolves /\ UNCHANGED exceptAskVars
  \/ AskRejects /\ UNCHANGED exceptAskVars
  \/ LlmChanges /\ UNCHANGED exceptAskVars

SpecAsk == Init /\ [][NextAsk]_vars

\* A request that was sent ends, with a response or with an error.
SpecAskFair ==
  /\ SpecAsk
  /\ WF_vars((AskResolves \/ AskRejects) /\ UNCHANGED exceptAskVars)

\* ------------------------------------------------------------------ smoke scripts
\* The number of checks a script runs. test-all-features runs some forty
\* run_test calls, modelled by MaxTests; the others count a fixed number.
TestCount(s) ==
  CASE s = "test-all-features" -> MaxTests
    [] s = "critical-features" -> 3
    [] s = "verify-critical-fixes" -> 6
    [] OTHER -> 2

\* The polls after which the wait of a script gives up; the waits written
\* as `while true` have no such number.
BoundedWait(s) == s \in {"test-all-features", "verify-critical-fixes"}
AttemptLimit(s) == IF s = "test-all-features" THEN max_attempts ELSE MAX_RETRIES

\* The scripts that log in, and the number of checks that run before the
\* login. verify-critical-fixes.sh counts the login as one of its checks.
LogsIn(s) == s # "test-all-features"
LoginAt(s) == IF s = "verify-critical-fixes" THEN 1 ELSE 0
CountsLogin(s) == s = "verify-critical-fixes"

\* The exit status after the summary. Only FINAL RESULTS of
\* test-all-features ends with an exit statement; the other scripts end
\* with an echo, whose status is the status of the script.
SummaryStatus(s, total, passed) ==
  IF s = "test-all-features"
  THEN IF total - passed = 0 THEN 0
       ELSE IF passed > total \div 2 THEN 0 ELSE 1
  ELSE 0

\* The summaries that print the count; verify-ai-functionality.sh prints
\* a verdict only.
PrintsTally(s) == s # "verify-ai-functionality"

Exit(status) ==
  /\ scriptPc' = "exited"
  /\ exitStatus' = status

\* A script is started on a deployment in any state of health.
StartScript(s) ==
  /\ scriptPc \in {"idle", "exited"}
  /\ script' = s
  /\ scriptPc' = "waiting"
  /\ waitingFor' = "backend"
  /\ attempt' = 0
  /\ TOKEN' = FALSE
  /\ TOTAL_TESTS' = 0
  /\ PASSED_TESTS' = 0
  /\ tallyPrinted' = FALSE
  /\ exitStatus' = 0
  /\ UNCHANGED healthy

\* One turn of the wait loop: a poll of the health check, and on failure
\* the sleep, the count of the attempt where the loop has one, and the
\* exit when the count reaches the limit.
Poll ==
  /\ scriptPc = "waiting"
  /\ IF healthy[waitingFor]
     THEN /\ IF script = "test-all-features" /\ waitingFor = "backend"
             THEN /\ waitingFor' = "frontend"
                  /\ scriptPc' = "waiting"
             ELSE /\ waitingFor' = waitingFor
                  /\ scriptPc' = "testing"
          /\ attempt' = 0
          /\ UNCHANGED exitStatus
     ELSE IF BoundedWait(script)
          THEN /\ attempt' = attempt + 1
               /\ IF attempt + 1 = AttemptLimit(script)
                  THEN Exit(1)
                  ELSE UNCHANGED <<scriptPc, exitStatus>>
               /\ UNCHANGED waitingFor
          ELSE UNCHANGED <<scriptPc, waitingFor, attempt, exitStatus>>
  /\ UNCHANGED <<script, healthy, TOKEN, TOTAL_TESTS, PASSED_TESTS, tallyPrinted>>

\* The login of the verify scripts: without a token the script exits 1.
GetToken(ok) ==
  /\ scriptPc = "testing"
  /\ LogsIn(script)
  /\ ~TOKEN
  /\ TOTAL_TESTS = LoginAt(script)
  /\ IF ok
     THEN /\ TOKEN' = TRUE
          /\ TOTAL_TESTS' = IF CountsLogin(script) THEN TOTAL_TESTS + 1 ELSE TOTAL_TESTS
          /\ PASSED_TESTS' = IF CountsLogin(script) THEN PASSED_TESTS + 1 ELSE PASSED_TESTS
          /\ UNCHANGED <<scriptPc, exitStatus>>
     ELSE /\ Exit(1)
          /\ UNCHANGED <<TOKEN, TOTAL_TESTS, PASSED_TESTS>>
  /\ UNCHANGED <<script, waitingFor, attempt, healthy, tallyPrinted>>

\* One check runs and passes or fails.
run_test(ok) ==
  /\ scriptPc = "testing"
  /\ TOTAL_TESTS < TestCount(script)
  /\ (LogsIn(script) /\ TOTAL_TESTS = LoginAt(script)) => TOKEN
  /\ TOTAL_TESTS' = TOTAL_TESTS + 1
  /\ PASSED_TESTS' = IF ok THEN PASSED_TESTS + 1 ELSE PASSED_TESTS
  /\ UNCHANGED <<script, scriptPc, waitingFor, attempt, healthy, TOKEN, tallyPrinted, exitStatus>>

\* The summary at the end of the script, and the end of the script.
Summary ==
  /\ scriptPc = "testing"
  /\ TOTAL_TESTS = TestCount(script)
  /\ tallyPrinted' = PrintsTally(script)
  /\ Exit(SummaryStatus(script, TOTAL_TESTS, PASSED_TESTS))
  /\ UNCHANGED <<script, waitingFor, attempt, healthy, TOKEN, TOTAL_TESTS, PASSED_TESTS>>

\* A service starts or stops answering its health check.
ServiceChanges(svc) ==
  /\ healthy' = [healthy EXCEPT ![svc] = ~healthy[svc]]
  /\ UNCHANGED <<script, scriptPc, waitingFor, attempt, TOKEN,
                 TOTAL_TESTS, PASSED_TESTS, tallyPrinted, exitStatus>>

NextScripts ==
  \/ \E s \in Scripts : StartScript(s) /\ UNCHANGED exceptScriptVars
  \/ Poll /\ UNCHANGED exceptScriptVars
  \/ \E ok \in BOOLEAN : GetToken(ok) /\ UNCHANGED exceptScriptVars
  \/ \E ok \in BOOLEAN : run_test(ok) /\ UNCHANGED exceptScriptVars
  \/ Summary /\ UNCHANGED exceptScriptVars
  \/ \E svc \in Services : ServiceChanges(svc) /\ UNCHANGED exceptScriptVars

SpecScripts == Init /\ [][NextScripts]_vars

\* A running script takes its next step: the shell runs the loop and the
\* commands after it without waiting for anything but their own sleep.
SpecScriptsFair ==
  /\ SpecScripts
  /\ WF_vars(Poll /\ UNCHANGED exceptScriptVars)
  /\ WF_vars((\E ok \in BOOLEAN : GetToken(ok)) /\ UNCHANGED exceptScriptVars)
  /\ WF_vars((\E ok \in BOOLEAN : run_test(ok)) /\ UNCHANGED exceptScriptVars)
  /\ WF_vars(Summary /\ UNCHANGED exceptScriptVars)

\* ------------------------------------------------------------------ properties
\* The redaction_lock_status answers waiting in a client's inbox.
PendingStatus(c) == SelectSeq(toClient[c], LAMBDA ev : ev.type = "redaction_lock_status")

\* The client has asked for the lock of its document, the answer is on its
\* way, and the client has not released since: it is in redact mode with the
\* flag still false and exactly one answer pending.
AwaitsAnswer(c) ==
  /\ page[c] = "open"
  /\ link[c] = "up"
  /\ mode[c] = "redact"
  /\ ~hasRedactionLock[c]
  /\ Len(PendingStatus(c)) = 1

Answer(c) == PendingStatus(c)[1].acquired

\* C1: two clients that have both asked for the redaction lock of the same
\* document, neither having released, never both get acquired=true: one gets
\* true and the other false, unless a third client holds the lock and both
\* get false.
C1_LockExclusive ==
  \A c1, c2 \in Clients :
    (c1 # c2 /\ documentId[c1] = documentId[c2] /\ AwaitsAnswer(c1) /\ AwaitsAnswer(c2))
      => /\ ~(Answer(c1) /\ Answer(c2))
         /\ (~Answer(c1) /\ ~Answer(c2)) => lock[documentId[c1]] \notin {c1, c2, NoClient}

C1_Witness ==
  \E c1, c2 \in Clients :
    /\ c1 # c2 /\ documentId[c1] = documentId[c2]
    /\ AwaitsAnswer(c1) /\ AwaitsAnswer(c2)
    /\ Answer(c1) /\ ~Answer(c2)

\* C2: the holder of a document's lock is always a connected member of the
\* document's room (leaving the room or disconnecting frees the lock), and a
\* client that has released explicitly (flag false, outside redact mode, no
\* answer on its way) is not the holder.
C2_ReleaseFrees ==
  /\ \A d \in Docs : lock[d] # NoClient => (link[lock[d]] = "up" /\ lock[d] \in room[d])
  /\ \A c \in Clients :
       (page[c] = "open" /\ ~hasRedactionLock[c] /\ mode[c] # "redact" /\ PendingStatus(c) = <<>>)
         => lock[documentId[c]] # c

\* A client that had the lock is gone and another client holds the lock now.
C2_Witness ==
  \E c1, c2 \in Clients :
    /\ c1 # c2 /\ documentId[c1] = documentId[c2]
    /\ hasRedactionLock[c1] /\ link[c1] = "down"
    /\ lock[documentId[c1]] = c2

\* C3: a redaction-create request is sent only by the holder of the
\* document's redaction lock.
C3_CreateOnlyWithLock ==
  [][\A c \in Clients : posts'[c] > posts[c] => lock[documentId[c]] = c]_vars

\* C4: an account with MFA enabled gets no access token and no authenticated
\* session before the verify step has accepted its current TOTP code: the
\* password step answers mfa_required only, and a verify call with a wrong
\* code yields neither a token nor an authenticated session.
C4_MfaGate ==
  /\ \A e \in issued : MfaEnabled(e) => e \in mfaVerified
  /\ (isAuthenticated \/ token # NoToken) =>
        /\ token.sub = user
        /\ MfaEnabled(user) => user \in mfaVerified
  /\ (lastCall.url = LoginUrl /\ lastCall.status = 200 /\ MfaEnabled(lastCall.email)) =>
        /\ lastCall.body = "mfa_required"
        /\ ~isAuthenticated /\ token = NoToken
  /\ (lastCall.url = VerifyUrl /\ lastCall.code # Totp(MfaSecret(lastCall.email), now)) =>
        /\ lastCall.body # "access_token"
        /\ ~isAuthenticated /\ token = NoToken

\* The MFA account has passed both steps.
C4_Witness ==
  /\ lastCall.url = VerifyUrl /\ lastCall.email = "alice"
  /\ isAuthenticated /\ user = "alice" /\ token.signed

\* An endpoint outside the authentication router.
NonAuthEndpoint(url) == url \in ProtectedUrls /\ ~Includes(url, <<"auth">>)

\* C5: after a 401 answer to a request to a non-auth endpoint the store holds
\* no user, no token and isAuthenticated=false, and the login page is shown.
C5_UnauthorizedClearsSession ==
  (lastCall.status = 401 /\ NonAuthEndpoint(lastCall.url)) =>
     /\ user = NoUser /\ token = NoToken /\ ~isAuthenticated
     /\ location = "login"

\* A signed-in user's request to the documents API was answered 401.
C5_Witness ==
  /\ lastCall.status = 401 /\ lastCall.url = DocumentsUrl
  /\ lastCall.email \in Accounts
  /\ location = "login"

\* C6: a document whose three jobs are all completed has status completed,
\* and a document with a failed job does not have status completed.
C6_JobsDecideStatus ==
  \A d \in JobDocs :
    /\ (\A j \in JobTypes : jobStatus[d][j] = "completed") => docStatus[d] = "completed"
    /\ (\E j \in JobTypes : jobStatus[d][j] = "failed") => docStatus[d] # "completed"

\* One document has completed after a retry while the other has a failed job.
C6_Witness ==
  \E d1, d2 \in JobDocs :
    /\ \A j \in JobTypes : jobStatus[d1][j] = "completed"
    /\ \E j \in JobTypes : attempts[d1][j] > 0
    /\ \E j \in JobTypes : jobStatus[d2][j] = "failed"
    /\ \E j \in JobTypes : jobStatus[d2][j] = "completed"

\* The create requests and the create/update requests the last step made.
CreateCalls == {i \in DOMAIN calls : calls[i].kind = "create"}
SubmitCalls == {i \in DOMAIN calls : calls[i].kind \in {"create", "update"}}

\* The page's pixel size as the renderer shown takes it.
PageWidth == IF useImageFallback THEN FallbackWidth ELSE OsdWidth
PageHeight == IF useImageFallback THEN FallbackHeight ELSE OsdHeight

\* C7: in both renderers a create request is only ever made for a rectangle
\* whose width and height both exceed the minimum size of 10 image pixels; a
\* gesture whose rectangle is not wider or not higher than that creates nothing.
C7_MinSize ==
  \A i \in CreateCalls :
    /\ calls[i].x_end - calls[i].x_start > MinSize
    /\ calls[i].y_end - calls[i].y_start > MinSize

\* A drawing gesture in redact mode has ended whose rectangle is exactly the
\* minimum wide and higher than the minimum, and nothing was created.
C7_Witness ==
  /\ redactionMode
  /\ released # <<>>
  /\ released[1].target = "canvas"
  /\ Abs(ToImage(released[1].to)[1] - ToImage(released[1].from)[1]) = MinSize
  /\ Abs(ToImage(released[1].to)[2] - ToImage(released[1].from)[2]) > MinSize
  /\ ~isDrawingRef
  /\ CreateCalls = {}

\* C8: every create or update request of the viewer has its four coordinates
\* inside the page's pixel bounds, whichever renderer is shown and wherever
\* the pointer was dragged or released.
C8_WithinPageBounds ==
  \A i \in SubmitCalls :
    /\ calls[i].x_start >= 0 /\ calls[i].x_start <= PageWidth
    /\ calls[i].x_end >= 0 /\ calls[i].x_end <= PageWidth
    /\ calls[i].y_start >= 0 /\ calls[i].y_start <= PageHeight
    /\ calls[i].y_end >= 0 /\ calls[i].y_end <= PageHeight

\* C9: comment mode and redaction mode are never active together, pan/zoom
\* of the deep-zoom renderer is enabled exactly when the viewer is not in
\* redact mode, and outside redact mode no gesture creates a rectangle.
C9_ModeOwnsPointer ==
  /\ ~(redactionMode /\ commentMode)
  /\ ~useImageFallback => (panEnabled <=> ~redactionMode)
  /\ ~redactionMode => CreateCalls = {}

\* The gesture is one on an existing redaction: it went down on the overlay
\* (move), on its resize handle or on its delete button.
OnRedaction(g) == g.target \in {"overlay", "handle", "delete"}

\* C10: a press on an existing redaction never starts a new rectangle, the
\* release that ends such a gesture creates nothing and opens no comment
\* input, and after it the canvas handling is enabled again.
C10_OverlayInteractionSuppresses ==
  [][/\ (pressed = <<>> /\ pressed' # <<>> /\ OnRedaction(pressed'[1])) =>
          /\ isDrawingRef' => isDrawingRef
          /\ fbDrawStart' = fbDrawStart
     /\ (pressed # <<>> /\ pressed' = <<>> /\ OnRedaction(pressed[1])) =>
          /\ \A i \in DOMAIN calls' : calls'[i].kind # "create"
          /\ showOsdCommentInput' = showOsdCommentInput
          /\ showCommentInput' = showCommentInput
          /\ ~suppressCanvasInteractionsRef'
          /\ mouseNavEnabled']_vars

\* The job types among a document's rows.
RowTypes(d) == {jobRows[d][i] : i \in DOMAIN jobRows[d]}

\* C11: a created document has an id of its own and exactly three job rows,
\* one of each of the types tiling, thumbnails and ocr, never fewer or more;
\* as long as the document is new (no job has been started) all three are
\* pending.
C11_CreateFansOut ==
  \A d \in JobDocs :
    /\ docStatus[d] # "none" =>
         /\ docId[d] # NoId
         /\ \A e \in JobDocs \ {d} : docId[e] # docId[d]
         /\ Len(jobRows[d]) = 3
         /\ RowTypes(d) = {"tiling", "thumbnails", "ocr"}
    /\ docStatus[d] = "new" =>
         \A i \in DOMAIN jobRows[d] : jobStatus[d][jobRows[d][i]] = "pending"

\* The second document has just been created, with its id and three pending
\* jobs, while the jobs of the first have moved on.
C11_Witness ==
  \E d, e \in JobDocs :
    /\ docStatus[d] = "new" /\ docId[d] = 2 /\ Len(jobRows[d]) = 3
    /\ \A j \in JobTypes : jobStatus[d][j] = "pending"
    /\ docId[e] = 1 /\ \E j \in JobTypes : jobStatus[e][j] = "failed"

\* C12: the document_state event a joining page is sent lists exactly the
\* comments and redactions the REST API lists for the document at that
\* moment, and when the page has processed the event its live lists are the
\* lists of the event.
C12_SnapshotOnJoin ==
  [][\A c \in Clients :
       /\ (~inRoom[c] /\ inRoom'[c]) =>
            /\ inbox'[c] # <<>>
            /\ inbox'[c][Len(inbox'[c])].type = "document_state"
            /\ inbox'[c][Len(inbox'[c])].comments = restComments
            /\ inbox'[c][Len(inbox'[c])].redactions = restRedactions
       /\ (inRoom'[c] /\ inbox[c] # <<>> /\ inbox'[c] = Tail(inbox[c])
             /\ Head(inbox[c]).type = "document_state") =>
            /\ liveComments'[c] = Head(inbox[c]).comments
            /\ liveRedactions'[c] = Head(inbox[c]).redactions]_vars

\* A page that rejoined has replaced its stale lists by the snapshot, which
\* lists a comment and no redaction any more.
C12_Witness ==
  \E c \in Clients :
    /\ inRoom[c] /\ inbox[c] = <<>>
    /\ liveComments[c] = restComments /\ restComments # <<>>
    /\ liveRedactions[c] = <<>> /\ usedRedactions > 0
    /\ \E d \in Clients : liveRedactions[d] # <<>>

\* C13: the secret of an API key is carried by exactly one response, the
\* one that answers its creation; no list response and no list held by the
\* console carries a secret, the console shows a secret only from the step
\* that created the key on, and once the secret is gone from the console no
\* step brings it back.
C13_SecretDisclosedOnce ==
  [][/\ \A id \in KeyIds : disclosed'[id] = IF id \in keyStore' THEN 1 ELSE 0
     /\ SecretsIn(apiKeys') = {}
     /\ SecretsIn(keyResponse') \subseteq keyStore' \ keyStore
     /\ (newApiKey' # NoKey /\ newApiKey' # newApiKey) => newApiKey' \in keyStore' \ keyStore]_vars

\* All keys exist, the list has been fetched since, and the secret shown
\* for the last key has been dismissed.
C13_Witness ==
  /\ keyStore = KeyIds
  /\ newApiKey = NoKey
  /\ \A id \in KeyIds : [key |-> id, field |-> "id"] \in apiKeys
  /\ \A id \in KeyIds : disclosed[id] = 1

C15_MfaTransitions ==
  [][/\ mfaState' \in MfaStates
     /\ mfaState = "mfa_setup_pending" => mfaSecret = secretsIssued /\ mfaSecret # NoSecret
     /\ mfaState' # mfaState =>
          \/ /\ mfaState = "mfa_disabled" /\ mfaState' = "mfa_setup_pending"
             /\ mfaCall.op = "setup"
          \/ /\ mfaState = "mfa_setup_pending" /\ mfaState' = "mfa_enabled"
             /\ mfaCall.op = "enable"
             /\ mfaCall.code = TotpCode(secretsIssued, now)
          \/ mfaState = "mfa_enabled" /\ mfaState' = "mfa_disabled"]_vars

\* MFA has been enabled with the second secret, after a first enrolment was
\* abandoned or turned off.
C15_Witness ==
  /\ mfaState = "mfa_enabled"
  /\ secretsIssued = 2
  /\ step = "verify"
  /\ mfaCall = NoMfaCall

C17_AdminGate ==
  isAuthenticated =>
    /\ ("/admin" \in NavigationHrefs) <=> (AccountRole(user) \in AdminRoles)
    /\ AdminRoute <=> (AccountRole(user) \in AdminRoles)
    /\ Resolve(pathname) = "/admin" => AccountRole(user) \in AdminRoles

\* C18: a request without a valid bearer token or API key to any route other
\* than health, docs, login and register is answered 401 and changes nothing
\* at the service.
C18_AuthRequired ==
  [][(apiLast'.cred # "bearer" /\ apiLast'.route \notin OpenRoutes) =>
       (apiLast'.status = 401 /\ apiDocs' = apiDocs /\ apiCreated' = apiCreated)]_vars

\* C19: when the deep-zoom viewer reports that opening failed, and when the
\* timer's 3 seconds have elapsed with no image loaded, the fallback is
\* switched on; and whenever the viewer has opened the page the fallback is
\* off, whether the open event came before the timeout or after it.
C19_FallbackChoice ==
  [][/\ (osd = "loading" /\ osd' = "failed") => useImageFallback'
     /\ (timerArmed /\ ~timerArmed' /\ osd' = osd /\ pageNumber' = pageNumber /\ osd # "opened")
          => (elapsed = FallbackDelay /\ useImageFallback')
     /\ osd' = "opened" => ~useImageFallback'
     /\ (osd' = "opened" /\ timerArmed') => FALSE]_vars

\* The timeout came first and switched the fallback on, then the viewer
\* opened the page and the fallback was switched off.
C19_Witness ==
  /\ osd = "opened"
  /\ ~useImageFallback
  /\ elapsed = FallbackDelay
  /\ ~attached

\* C20: the same press-drag-release gesture over the same region of the page
\* gives the same create request, with the same rectangle in image pixels,
\* in the deep-zoom renderer and in the fallback renderer.
C20_SameRectangle == osdCreated = fbCreated

\* C24: when a client handles redaction_lock_status with acquired=false for
\* the document it is viewing, it is in view mode afterwards with its lock
\* flag false; the denial is an event taken from the socket: handling it sends
\* no request, closes no page and no connection, and leaves the gateway's
\* locks as they were.
C24_DenialEndsInView ==
  [][\A c \in Clients :
       (/\ RecvLockStatus(c)
        /\ Head(toClient[c]).doc = documentId[c]
        /\ ~Head(toClient[c]).acquired)
         => /\ mode'[c] = "view"
            /\ ~hasRedactionLock'[c]
            /\ <<page, posts, createPc, link, room, lock>>' = <<page, posts, createPc, link, room, lock>>]_vars

\* A client in redact mode is about to handle the denial of the lock of its
\* document, which another client of the same document holds.
C24_Witness ==
  \E c1, c2 \in Clients :
    /\ c1 # c2 /\ documentId[c1] = documentId[c2]
    /\ page[c1] = "open" /\ mode[c1] = "redact"
    /\ toClient[c1] # <<>>
    /\ Head(toClient[c1]) = RedactionLockStatus(documentId[c1], FALSE)
    /\ lock[documentId[c1]] = c2 /\ hasRedactionLock[c2]

\* C25: a client outside redact mode does not keep the lock: from any moment
\* at which its page is open and it is not in redact mode, it comes to hold
\* no lock of its document at the gateway with its flag false, unless it
\* enters redact mode again or its page is closed.
C25_LeavingReleases ==
  \A c \in Clients :
    (page[c] = "open" /\ mode[c] # "redact")
      ~> \/ mode[c] = "redact"
         \/ page[c] # "open"
         \/ (lock[documentId[c]] # c /\ ~hasRedactionLock[c])

\* C26: a 401 answer to a login, MFA-verify or registration request of the
\* client leaves the session store as it was and causes no redirect of the
\* browser.
C26_AuthFlowExempt ==
  [][(lastCall'.status = 401 /\ lastCall'.url \in {LoginUrl, VerifyUrl, RegisterUrl})
       => (storeVars' = storeVars /\ ~redirected')]_vars

\* C27: in the session store isAuthenticated is true exactly when the token
\* is non-null, and an authenticated store holds a user; the persisted copy
\* is the store.
C27_StoreConsistent ==
  /\ isAuthenticated <=> token # NoToken
  /\ isAuthenticated => user # NoUser
  /\ storage = [user |-> user, token |-> token, isAuthenticated |-> isAuthenticated]

\* The session of an account without MFA, signed in at an earlier time and
\* still in the store and the storage.
C27_Witness ==
  /\ isAuthenticated /\ user = "bob" /\ token = AccessToken("bob", 0)
  /\ now > 0
  /\ storage.isAuthenticated
  /\ lastCall = NoCall

\* C28: a login or verify request that is answered with an error or with
\* mfa_required, or that gets no answer, leaves user, token and
\* isAuthenticated as they were.
C28_FailedLoginKeepsStore ==
  [][(/\ lastCall'.url \in {LoginUrl, VerifyUrl}
      /\ lastCall'.status # 200 \/ lastCall'.body = "mfa_required")
       => storeVars' = storeVars]_vars

\* The MFA account's verify step was answered 401 for a wrong code, and the
\* store is as empty as it was.
C28_Witness ==
  /\ lastCall.url = VerifyUrl /\ lastCall.email = "alice" /\ lastCall.status = 401
  /\ user = NoUser /\ token = NoToken /\ ~isAuthenticated

\* C29: for each redaction id and each comment id at most one delete request
\* is in flight, and an id with no request in flight is not marked as being
\* deleted.
C29_OneDeleteInFlight ==
  \A k \in Kinds, id \in ItemIds :
    /\ inFlight[k][id] <= 1
    /\ inFlight[k][id] = 0 => id \notin deleting[k]

\* The status of a file in a list, "gone" when the list does not hold it.
StatusIn(list, id) ==
  IF \E i \in DOMAIN list : list[i].id = id
    THEN (CHOOSE f \in {list[i] : i \in DOMAIN list} : f.id = id).status
    ELSE "gone"

\* C30: every file is submitted to the server at most once, and a file's
\* status moves forward only: from pending to uploading, success or error,
\* from uploading to success or error, and from success or error nowhere
\* (the file can only leave the list).
C30_UploadOnce ==
  [][\A id \in FileIds :
       /\ Cardinality({r \in DOMAIN uploads' : uploads'[r].file = id}) <= 1
       /\ StatusIn(files, id) = "uploading" => StatusIn(files', id) \in {"uploading", "success", "error", "gone"}
       /\ StatusIn(files, id) \in {"success", "error"} => StatusIn(files', id) \in {StatusIn(files, id), "gone"}]_vars

\* C21: with the language model unreachable or failing the ask operation
\* answers with HTTP success and the text that says it cannot answer; and in
\* the client every question that was asked comes to an end with the loading
\* state cleared and a non-empty answer or failure text shown.
C21_AskEndsWithText ==
  /\ [](askResponse.llm = "down" => (askResponse.status = 200 /\ askResponse.answer = UnableAnswer))
  /\ []((aiToast # "none" /\ ~isLoadingAI) => aiAnswer # "")
  /\ (isLoadingAI ~> (~isLoadingAI /\ aiAnswer # ""))

\* A question asked while the language model was down has ended with the
\* soft-failure text shown.
C21_Witness ==
  /\ askResponse.llm = "down"
  /\ aiAnswer = UnableAnswer
  /\ aiToast = "success"
  /\ ~isLoadingAI

\* The script ran all its checks and ended after its summary.
Summarised == scriptPc = "exited" /\ TOTAL_TESTS = TestCount(script) /\ script # NoScript

\* C22: a smoke script that reached its summary has printed its tally, and
\* its exit status is 0 when more than half of its checks passed and 1 when
\* more than half of them failed.
C22_ExitByMajority ==
  Summarised =>
    /\ tallyPrinted
    /\ (2 * PASSED_TESTS > TOTAL_TESTS => exitStatus = 0)
    /\ (2 * (TOTAL_TESTS - PASSED_TESTS) > TOTAL_TESTS => exitStatus = 1)

\* C23: a wait for a service that never becomes healthy ends: the script
\* leaves the wait by exiting with a non-zero status.
C23_WaitIsBounded ==
  \A svc \in Services :
    ([] ~healthy[svc])
      => ((scriptPc = "waiting" /\ waitingFor = svc)
            ~> (scriptPc = "exited" /\ exitStatus # 0))
====
